---- MODULE Spec2Model ----
(***************************************************************************)
(* L-ZIP translator (src/lzip.py): the forward translation pipeline        *)
(* translate_to_lzip = lower -> _clean_text -> _compress_phrases ->        *)
(* _extract_operators -> final cleanup -> build -> metrics.                *)
(*                                                                         *)
(* Text is a TLA+ string; a character is a string of length 1.  Python's   *)
(* re module is modelled by a backtracking matcher over a pattern syntax   *)
(* tree that returns the matches at a position in Python's priority order  *)
(* (ordered alternation, greedy and lazy repetition), so re.search and     *)
(* re.sub return the match Python returns.                                 *)
(***************************************************************************)
EXTENDS Integers, Sequences, FiniteSets, TLC

(***************************************************************************)
(* Characters and str methods                                              *)
(***************************************************************************)
LowerAZ == {"a","b","c","d","e","f","g","h","i","j","k","l","m",
            "n","o","p","q","r","s","t","u","v","w","x","y","z"}

UpperAZ == {"A","B","C","D","E","F","G","H","I","J","K","L","M",
            "N","O","P","Q","R","S","T","U","V","W","X","Y","Z"}

Digit == {"0","1","2","3","4","5","6","7","8","9"}

\* \s of the re module (ASCII part)
WhiteSpace == {" ", "\t", "\n", "\r", "\f"}

\* \w of the re module (ASCII part)
WordChar == LowerAZ \cup UpperAZ \cup Digit \cup {"_"}

\* [a-z\s] under re.IGNORECASE
AlphaSpace == LowerAZ \cup UpperAZ \cup WhiteSpace

\* [a-z] under re.IGNORECASE
Alpha == LowerAZ \cup UpperAZ

UpperToLower ==
  [c \in UpperAZ |->
    CASE c = "A" -> "a" [] c = "B" -> "b" [] c = "C" -> "c" [] c = "D" -> "d"
      [] c = "E" -> "e" [] c = "F" -> "f" [] c = "G" -> "g" [] c = "H" -> "h"
      [] c = "I" -> "i" [] c = "J" -> "j" [] c = "K" -> "k" [] c = "L" -> "l"
      [] c = "M" -> "m" [] c = "N" -> "n" [] c = "O" -> "o" [] c = "P" -> "p"
      [] c = "Q" -> "q" [] c = "R" -> "r" [] c = "S" -> "s" [] c = "T" -> "t"
      [] c = "U" -> "u" [] c = "V" -> "v" [] c = "W" -> "w" [] c = "X" -> "x"
      [] c = "Y" -> "y" [] c = "Z" -> "z"]

LowerToUpper ==
  [c \in LowerAZ |-> CHOOSE u \in UpperAZ : UpperToLower[u] = c]

CharAt(s, i) == SubSeq(s, i, i)

\* s[i:] and s[:i] with 1-based positions: From(s, i) is s from position i on
From(s, i) == SubSeq(s, i, Len(s))
Upto(s, i) == SubSeq(s, 1, i)
\* s[:n] for a length n: the slice stops at the end of s
Prefix(s, n) == IF Len(s) <= n THEN s ELSE SubSeq(s, 1, n)

LowerChar(c) == IF c \in UpperAZ THEN UpperToLower[c] ELSE c
UpperChar(c) == IF c \in LowerAZ THEN LowerToUpper[c] ELSE c

\* the least and the greatest element of a non-empty set of integers
Min(S) == CHOOSE x \in S : \A y \in S : x <= y
Max(S) == CHOOSE x \in S : \A y \in S : x >= y

\* F applied to every character of s[a..b] (halving keeps the evaluation shallow)
RECURSIVE MapRange(_, _, _, _)
MapRange(F(_, _), s, a, b) ==
  IF a > b THEN ""
  ELSE IF a = b THEN F(s, a)
  ELSE LET mid == (a + b) \div 2
       IN MapRange(F, s, a, mid) \o MapRange(F, s, mid + 1, b)

\* str.lower()
LowerAt(s, i) == LowerChar(CharAt(s, i))
Lower(s) == MapRange(LowerAt, s, 1, Len(s))

\* str.title(): a letter is upper-cased after a non-letter, lower-cased after a letter
TitleAt(s, i) ==
  IF i > 1 /\ CharAt(s, i - 1) \in Alpha
  THEN LowerChar(CharAt(s, i)) ELSE UpperChar(CharAt(s, i))
Title(s) == MapRange(TitleAt, s, 1, Len(s))

\* s.replace(' ', '_')
UnderscoreAt(s, i) == IF CharAt(s, i) = " " THEN "_" ELSE CharAt(s, i)
SpacesToUnderscores(s) == MapRange(UnderscoreAt, s, 1, Len(s))

\* the length of the longest run s[i], s[i+1], ... of characters of cs, at most max
RunLen(s, i, cs, max) ==
  LET lim == IF max < 0 \/ Len(s) - i + 1 < max THEN Len(s) - i + 1 ELSE max
  IN CHOOSE k \in 0..lim :
       /\ (k = lim \/ CharAt(s, i + k) \notin cs)
       /\ \A j \in 0..(k - 1) : CharAt(s, i + j) \in cs

\* the length of the longest run s[i], s[i-1], ... (leftwards) of characters of cs
RunLenBack(s, i, cs) ==
  CHOOSE k \in 0..i :
    /\ (k = i \/ CharAt(s, i - k) \notin cs)
    /\ \A j \in 0..(k - 1) : CharAt(s, i - j) \in cs

\* str.strip()
Strip(s) ==
  LET a == RunLen(s, 1, WhiteSpace, -1)
  IN IF a = Len(s) THEN ""
     ELSE SubSeq(s, a + 1, Len(s) - RunLenBack(s, Len(s), WhiteSpace))

\* s.find(sub) as a 1-based position, 0 when sub does not occur in s
Find(s, sub) ==
  LET hits == {i \in 1..(Len(s) - Len(sub) + 1) : SubSeq(s, i, i + Len(sub) - 1) = sub}
  IN IF hits = {} THEN 0 ELSE Min(hits)

\* sub in s
Contains(s, sub) == \E i \in 1..(Len(s) - Len(sub) + 1) : SubSeq(s, i, i + Len(sub) - 1) = sub

\* s.count(sub) for a sub that does not overlap itself
Count(s, sub) ==
  Cardinality({i \in 1..(Len(s) - Len(sub) + 1) : SubSeq(s, i, i + Len(sub) - 1) = sub})

\* s.replace(old, new, 1)
ReplaceFirst(s, old, new) ==
  LET p == Find(s, old)
  IN IF p = 0 THEN s ELSE Upto(s, p - 1) \o new \o From(s, p + Len(old))

\* sep.join(parts)
RECURSIVE Join(_, _)
Join(parts, sep) ==
  IF parts = <<>> THEN ""
  ELSE IF Len(parts) = 1 THEN parts[1]
  ELSE parts[1] \o sep \o Join(Tail(parts), sep)

\* the positions where a word of s.split() starts
WordStarts(s) ==
  {i \in 1..Len(s) : CharAt(s, i) \notin WhiteSpace
                     /\ (i = 1 \/ CharAt(s, i - 1) \in WhiteSpace)}

\* len(s.split())
WordCount(s) == Cardinality(WordStarts(s))

\* s.split(): the maximal runs of non-whitespace characters, from position i on
RECURSIVE SplitFrom(_, _)
SplitFrom(s, i) ==
  LET starts == {j \in WordStarts(s) : j >= i}
  IN IF starts = {} THEN <<>>
     ELSE LET a == Min(starts)
              n == RunLen(s, a, {CharAt(s, j) : j \in 1..Len(s)} \ WhiteSpace, -1)
          IN <<SubSeq(s, a, a + n - 1)>> \o SplitFrom(s, a + n)

Split(s) == SplitFrom(s, 1)

(***************************************************************************)
(* The re module: pattern syntax trees                                     *)
(***************************************************************************)
\* a literal, compared case-insensitively (re.IGNORECASE; the literal is lower case)
ILit(w) == [t |-> "ilit", s |-> w]
\* a literal, compared exactly
Lit(w) == [t |-> "lit", s |-> w]
\* a character class
Cls(cs) == [t |-> "set", cs |-> cs]
\* . (any character but a newline)
AnyChar == [t |-> "dot"]
\* \b
WordB == [t |-> "wb"]
\* $ (the end of the text, or just before a final newline)
EndOfText == [t |-> "eos"]
\* (?=x)
Ahead(x) == [t |-> "ahead", x |-> x]
\* x1 x2 ... and x1|x2|...
Cat(xs) == [t |-> "cat", xs |-> xs]
Alt(xs) == [t |-> "alt", xs |-> xs]
\* x{lo,hi} (greedy) and x{lo,hi}? (lazy); hi = -1 is no upper limit; c counts the
\* repetitions matched so far
Rep(x, lo, hi) == [t |-> "rep", x |-> x, lo |-> lo, hi |-> hi, lazy |-> FALSE, c |-> 0]
RepLazy(x, lo, hi) == [t |-> "rep", x |-> x, lo |-> lo, hi |-> hi, lazy |-> TRUE, c |-> 0]
Plus(x) == Rep(x, 1, -1)
Star(x) == Rep(x, 0, -1)
Opt(x) == Rep(x, 0, 1)
\* capturing group number k; GrpEnd closes the group opened at position a
Grp(k, x) == [t |-> "grp", k |-> k, x |-> x]
GrpEnd(k, a) == [t |-> "grpend", k |-> k, a |-> a]
\* an alternation of case-insensitive literals, (?:w1|w2|...)
Words(ws) == Alt([k \in 1..Len(ws) |-> ILit(ws[k])])

\* the groups of a match: group k spans positions g[k][1] .. g[k][2]-1; <<0, 0>> is unset
NoGroups == <<<<0, 0>>, <<0, 0>>, <<0, 0>>>>

Fail == [ok |-> FALSE, s |-> 0, e |-> 0, g |-> NoGroups]

IsWordAt(s, i) == i >= 1 /\ i <= Len(s) /\ CharAt(s, i) \in WordChar

\* the characters a one-character pattern accepts among those of s
OneCharSet(n, s) ==
  IF n.t = "set" THEN n.cs ELSE {CharAt(s, j) : j \in 1..Len(s)} \ {"\n"}

(***************************************************************************)
(* Match(todo, s, a, i, g): the backtracking matcher.  todo is the sequence *)
(* of patterns still to match from position i (the continuation), a the     *)
(* position the match started at, g the groups so far.  The result is the   *)
(* first success in the order Python's matcher tries the alternatives:      *)
(* alternation left to right, a greedy repetition longest first, a lazy     *)
(* one shortest first.                                                      *)
(***************************************************************************)
RECURSIVE Match(_, _, _, _, _)
RECURSIVE MatchAlt(_, _, _, _, _, _, _)

Match(todo, s, a, i, g) ==
  IF todo = <<>> THEN [ok |-> TRUE, s |-> a, e |-> i, g |-> g]
  ELSE
  LET n == Head(todo)
      rest == Tail(todo)
  IN CASE n.t = "ilit" ->
            LET k == Len(n.s)
            IN IF /\ i + k - 1 <= Len(s)
                  /\ LowerChar(CharAt(s, i)) = CharAt(n.s, 1)
                  /\ Lower(SubSeq(s, i, i + k - 1)) = n.s
               THEN Match(rest, s, a, i + k, g) ELSE Fail
       [] n.t = "lit" ->
            LET k == Len(n.s)
            IN IF i + k - 1 <= Len(s) /\ SubSeq(s, i, i + k - 1) = n.s
               THEN Match(rest, s, a, i + k, g) ELSE Fail
       [] n.t = "set" ->
            IF i <= Len(s) /\ CharAt(s, i) \in n.cs
            THEN Match(rest, s, a, i + 1, g) ELSE Fail
       [] n.t = "dot" ->
            IF i <= Len(s) /\ CharAt(s, i) # "\n"
            THEN Match(rest, s, a, i + 1, g) ELSE Fail
       [] n.t = "wb" ->
            IF IsWordAt(s, i - 1) # IsWordAt(s, i) THEN Match(rest, s, a, i, g) ELSE Fail
       [] n.t = "eos" ->
            IF i = Len(s) + 1 \/ (i = Len(s) /\ CharAt(s, i) = "\n")
            THEN Match(rest, s, a, i, g) ELSE Fail
       [] n.t = "ahead" ->
            IF Match(<<n.x>>, s, a, i, g).ok THEN Match(rest, s, a, i, g) ELSE Fail
       [] n.t = "grp" -> Match(<<n.x, GrpEnd(n.k, i)>> \o rest, s, a, i, g)
       [] n.t = "grpend" -> Match(rest, s, a, i, [g EXCEPT ![n.k] = <<n.a, i>>])
       [] n.t = "cat" -> Match(n.xs \o rest, s, a, i, g)
       [] n.t = "alt" -> MatchAlt(n.xs, 1, rest, s, a, i, g)
       [] n.t = "rep" /\ n.x.t \in {"set", "dot"} ->
            \* a repeated single character: the run of accepted characters is
            \* taken whole, and the continuation is tried at each allowed length
            LET run == RunLen(s, i, OneCharSet(n.x, s), n.hi)
                good == {k \in n.lo..run : Match(rest, s, a, i + k, g).ok}
            IN IF good = {} THEN Fail
               ELSE Match(rest, s, a, i + (IF n.lazy THEN Min(good) ELSE Max(good)), g)
       [] n.t = "rep" /\ n.x.t \notin {"set", "dot"} ->
            LET stop == IF n.c >= n.lo THEN Match(rest, s, a, i, g) ELSE Fail
                more == IF n.hi < 0 \/ n.c < n.hi
                        THEN Match(<<n.x, [n EXCEPT !.c = n.c + 1]>> \o rest, s, a, i, g)
                        ELSE Fail
            IN IF n.lazy THEN (IF stop.ok THEN stop ELSE more)
               ELSE (IF more.ok THEN more ELSE stop)

\* the alternatives in their written order
MatchAlt(xs, k, rest, s, a, i, g) ==
  IF k > Len(xs) THEN Fail
  ELSE LET r == Match(<<xs[k]>> \o rest, s, a, i, g)
       IN IF r.ok THEN r ELSE MatchAlt(xs, k + 1, rest, s, a, i, g)

\* pattern.match(s, i): the match of p starting exactly at position i
MatchAt(p, s, i) == Match(<<p>>, s, i, i, NoGroups)

\* the positions of s where a match of p starts
MatchStarts(p, s) == {i \in 1..(Len(s) + 1) : MatchAt(p, s, i).ok}

\* the match of p at the least of the positions starts, Fail when there is none
LeftmostOf(p, s, starts) ==
  IF starts = {} THEN Fail ELSE MatchAt(p, s, Min(starts))

\* re.search(p, s): the leftmost match, [ok, s (start), e (end), g (groups)]
Search(p, s) == LeftmostOf(p, s, MatchStarts(p, s))

\* match.group(k): the text of group k
GroupText(s, m, k) == SubSeq(s, m.g[k][1], m.g[k][2] - 1)

\* a replacement template is a sequence of [lit |-> text] and [grp |-> k] (\k)
RECURSIVE Expand(_, _, _)
Expand(repl, s, m) ==
  IF repl = <<>> THEN ""
  ELSE (IF "grp" \in DOMAIN repl[1] THEN GroupText(s, m, repl[1].grp) ELSE repl[1].lit)
       \o Expand(Tail(repl), s, m)

\* re.sub(p, repl, s, count): the non-overlapping matches left to right, at most
\* count of them (count = 0: all); starts is MatchStarts(p, s).  Every pattern of
\* lzip.py consumes at least one character, so no match is empty.
RECURSIVE SubFrom(_, _, _, _, _, _, _)
RECURSIVE SubMatch(_, _, _, _, _, _, _, _)

\* the text from position i on, done replacements being made so far
SubFrom(p, repl, s, starts, i, done, count) ==
  IF starts = {} \/ (count # 0 /\ done >= count) THEN From(s, i)
  ELSE SubMatch(p, repl, s, starts, i, done, count, MatchAt(p, s, Min(starts)))

\* the next match m is replaced, and the scan goes on after it
SubMatch(p, repl, s, starts, i, done, count, m) ==
  SubSeq(s, i, m.s - 1) \o Expand(repl, s, m)
    \o SubFrom(p, repl, s, {j \in starts : j >= m.e}, m.e, done + 1, count)

Sub(p, repl, s, count) == SubFrom(p, repl, s, MatchStarts(p, s), 1, 0, count)

Delete == <<>>
To(w) == <<[lit |-> w]>>

(***************************************************************************)
(* Pattern tables (class attributes of LZIPTranslator)                     *)
(***************************************************************************)
\* \bw\b
Phrase(w) == Cat(<<WordB, ILit(w), WordB>>)

\* PHRASE_MAP, in dictionary order: <<pattern, replacement>>
PHRASE_MAP == <<
  <<Phrase("please"), Delete>>,
  <<Phrase("you should"), Delete>>,
  <<Phrase("i want you to"), Delete>>,
  <<Phrase("can you"), Delete>>,
  <<Phrase("could you"), Delete>>,
  <<Phrase("you must"), Delete>>,
  <<Phrase("make sure you"), Delete>>,
  <<Phrase("and then"), To("|")>>,
  <<Phrase("followed by"), To("|")>>,
  <<Phrase("as well as"), To("+")>>,
  <<Phrase("also"), To("+")>>,
  <<Phrase("including"), To("+")>>,
  <<Phrase("with the addition of"), To("+")>>,
  <<Phrase("additionally"), To("+")>>,
  <<Phrase("result in"), To("=>")>>,
  <<Phrase("leading to"), To("=>")>>,
  <<Phrase("which leads to"), To("=>")>>,
  <<Phrase("thus"), To("=>")>>,
  \* r'\ntherefore\b': a newline, not a word boundary, before the word
  <<Cat(<<Lit("\n"), ILit("therefore"), WordB>>), To("=>")>>,
  <<Phrase("consequently"), To("=>")>>,
  <<Phrase("or"), To("|")>>,
  \* r'\beither\s+(.+?)\s+or\b' -> r'\1/'
  <<Cat(<<WordB, ILit("either"), Plus(Cls(WhiteSpace)), Grp(1, RepLazy(AnyChar, 1, -1)),
          Plus(Cls(WhiteSpace)), ILit("or"), WordB>>),
    <<[grp |-> 1], [lit |-> "/"]>>>>,
  \* r'\bwithin\s+(\d+)\s+(days|hours|weeks|months|years)\b' -> r'@\1\2_abbr'
  <<Cat(<<WordB, ILit("within"), Plus(Cls(WhiteSpace)), Grp(1, Plus(Cls(Digit))),
          Plus(Cls(WhiteSpace)),
          Grp(2, Words(<<"days", "hours", "weeks", "months", "years">>)), WordB>>),
    <<[lit |-> "@"], [grp |-> 1], [grp |-> 2], [lit |-> "_abbr"]>>>>,
  \* r'\bby\s+(\w+)\b' -> r'@\1'
  <<Cat(<<WordB, ILit("by"), Plus(Cls(WhiteSpace)), Grp(1, Plus(Cls(WordChar))), WordB>>),
    <<[lit |-> "@"], [grp |-> 1]>>>>,
  \* r'\tat\s+(\w+)\b' -> r'@\1': a tab, not a word boundary, before the word
  <<Cat(<<Lit("\t"), ILit("at"), Plus(Cls(WhiteSpace)), Grp(1, Plus(Cls(WordChar))), WordB>>),
    <<[lit |-> "@"], [grp |-> 1]>>>>,
  <<Phrase("really"), Delete>>,
  <<Phrase("very"), Delete>>,
  <<Phrase("actually"), Delete>>,
  <<Phrase("just"), Delete>>,
  <<Phrase("basically"), Delete>>,
  <<Phrase("assentially"), Delete>>
>>

\* the fillers list of _compress_phrases
fillers == <<
  Cat(<<WordB, Grp(1, Words(<<"please", "kindly", "would you", "can you", "could you",
                              "would", "could", "should", "may", "might">>)), WordB>>),
  Cat(<<WordB, Grp(1, Words(<<"very", "really", "actually", "basically", "essentially",
                              "obviously", "certainly", "just", "simply", "only">>)), WordB>>),
  Cat(<<WordB, Grp(1, Words(<<"that", "this", "this is", "that is">>)), WordB,
        Star(Cls(WhiteSpace))>>),
  Cat(<<WordB, Grp(1, Alt(<<Cat(<<ILit("a"), Plus(Cls(WhiteSpace))>>),
                            Cat(<<ILit("an"), Plus(Cls(WhiteSpace))>>),
                            Cat(<<ILit("the"), Plus(Cls(WhiteSpace))>>)>>)),
        Ahead(Cls(Alpha))>>),
  Cat(<<Star(Cls(WhiteSpace)), WordB,
        Grp(1, Words(<<"for me", "to me", "to us", "from me">>)), WordB>>)
>>

\* count=5 of the filler substitutions
FillerCount == 5

\* r'\s+'
Spaces == Plus(Cls(WhiteSpace))

(***************************************************************************)
(* _clean_text and _compress_phrases                                       *)
(***************************************************************************)
\* _clean_text: collapse whitespace runs to one space, strip
clean_text(text) == Strip(Sub(Spaces, To(" "), text, 0))

\* the entries a..b of PHRASE_MAP applied in their order (no pattern matches in an
\* empty text; the halving keeps the evaluation shallow)
RECURSIVE PhraseMapRange(_, _, _)
PhraseMapRange(text, a, b) ==
  IF a > b \/ text = "" THEN text
  ELSE IF a = b THEN Sub(PHRASE_MAP[a][1], PHRASE_MAP[a][2], text, 0)
  ELSE PhraseMapRange(PhraseMapRange(text, a, (a + b) \div 2), (a + b) \div 2 + 1, b)

\* the loop over PHRASE_MAP from entry k on
ApplyPhraseMap(text, k) == PhraseMapRange(text, k, Len(PHRASE_MAP))

\* ApplyFiller with a fault: every match is deleted
ApplyFillerAll(text, k) == Sub(fillers[k], Delete, text, 0)

\* line 282 for filler k: at most FillerCount matches are deleted
ApplyFiller(text, k) == Sub(fillers[k], Delete, text, FillerCount)

\* the loop over fillers from entry k on
RECURSIVE ApplyFillers(_, _)
ApplyFillers(text, k) ==
  IF k > Len(fillers) \/ text = "" THEN text
  ELSE ApplyFillers(ApplyFiller(text, k), k + 1)

\* r'[,;:]+\s*$' and r'[,;:]+'
TrailingPunct == Cat(<<Plus(Cls({",", ";", ":"})), Star(Cls(WhiteSpace)), EndOfText>>)
PunctRun == Plus(Cls({",", ";", ":"}))

\* lines 285, 288 and 289 (no pattern matches in an empty text)
CollapseSpaces(text) == IF text = "" THEN "" ELSE Sub(Spaces, To(" "), text, 0)
DropTrailingPunct(text) == IF text = "" THEN "" ELSE Sub(TrailingPunct, Delete, text, 0)
CollapsePunct(text) == IF text = "" THEN "" ELSE Sub(PunctRun, To(","), text, 0)

compress_phrases(text) ==
  Strip(CollapsePunct(DropTrailingPunct(CollapseSpaces(
          ApplyFillers(ApplyPhraseMap(text, 1), 1)))))

(***************************************************************************)
(* _normalize_role, _shorten_term, _normalize_output                       *)
(***************************************************************************)
role_map == <<
  <<"expert", "Expert">>, <<"senior developer", "Senior_Dev">>,
  <<"architect", "Architect">>, <<"analyst", "Analyst">>,
  <<"consultant", "Consultant">>, <<"teacher", "Teacher">>, <<"writer", "Writer">>,
  <<"designer", "Designer">>, <<"engineer", "Engineer">>, <<"scientist", "Scientist">>,
  <<"researcher", "Researcher">>, <<"doctor", "Doctor">>, <<"lawyer", "Lawyer">>
>>

output_map == <<
  <<"json", "JSON">>, <<"csv", "CSV">>, <<"table", "Table">>, <<"markdown", "Markdown">>,
  <<"html", "HTML">>, <<"xml", "XML">>, <<"yaml", "YAML">>, <<"python", "Python">>,
  <<"javascript", "JavaScript">>, <<"code", "Code">>, <<"list", "List">>,
  <<"bullet", "Bullets">>, <<"paragraph", "Paragraph">>
>>

\* the least element of a set of positive integers, 0 for the empty set
MinOrZero(S) == IF S = {} THEN 0 ELSE Min(S)

\* for key, val in table.items(): if key in text: return val -- the index of the
\* first key that occurs in text, 0 when none does
FirstKeyIn(table, text) ==
  MinOrZero({k \in 1..Len(table) : Contains(text, table[k][1])})

\* the loop of _normalize_role on the lower-cased, stripped role; k = FirstKeyIn
RoleLookup(role, k) ==
  IF k # 0 THEN role_map[k][2] ELSE Title(SpacesToUnderscores(role))

\* RoleOf with a fault: the last key of the table that occurs in the role wins
RoleOfLast(role) ==
  RoleLookup(role, IF FirstKeyIn(role_map, role) = 0 THEN 0
                   ELSE Max({k \in 1..Len(role_map) : Contains(role, role_map[k][1])}))

RoleOf(role) == RoleLookup(role, FirstKeyIn(role_map, role))

normalize_role(role0) == RoleOf(Strip(Lower(role0)))

\* r'\b(a|an|the|for|to|and|or)\b\s*'
SmallWords ==
  Cat(<<WordB, Grp(1, Words(<<"a", "an", "the", "for", "to", "and", "or">>)), WordB,
        Star(Cls(WhiteSpace))>>)

shorten_term(term0) ==
  SpacesToUnderscores(Sub(SmallWords, Delete, Strip(term0), 0))

\* the loop of _normalize_output on the lower-cased, stripped value; k = FirstKeyIn
OutputLookup(output, k) ==
  IF k # 0 THEN output_map[k][2] ELSE Join(Split(output), "+")

\* OutputOf with a fault: the last key of the table that occurs in the value wins
OutputOfLast(output) ==
  OutputLookup(output, IF FirstKeyIn(output_map, output) = 0 THEN 0
                       ELSE Max({k \in 1..Len(output_map) : Contains(output, output_map[k][1])}))

OutputOf(output) == OutputLookup(output, FirstKeyIn(output_map, output))

normalize_output(output0) == OutputOf(Strip(Lower(output0)))

(***************************************************************************)
(* _extract_operators: the pattern lists                                   *)
(***************************************************************************)
Punct3 == Cls({".", ",", ";"})

\* [a-z\s]{2,hi}? in group 1
Phrase1(hi) == Grp(1, RepLazy(Cls(AlphaSpace), 2, hi))

\* <<pattern, group>>
act_patterns == <<
  <<Cat(<<Alt(<<ILit("act as"), ILit("role"), ILit("persona"), ILit("assume"),
                Cat(<<ILit("be "), Opt(ILit("a"))>>)>>),
          Spaces, Phrase1(30),
          Alt(<<Punct3, ILit("and"), ILit("then"), ILit("who"), ILit("that")>>)>>), 1>>,
  <<Cat(<<WordB, Grp(1, Words(<<"senior", "expert", "professional", "experienced">>)),
          Spaces, Grp(2, Plus(Cls(Alpha))),
          Opt(Cat(<<Spaces,
                    Grp(3, Words(<<"developer", "engineer", "architect", "analyst">>))>>))>>),
    2>>
>>

obj_patterns == <<
  <<Cat(<<Words(<<"write", "create", "generate", "produce", "develop", "design">>),
          Spaces, Phrase1(50),
          Alt(<<Punct3, ILit("and"), ILit("for"), ILit("to")>>)>>), 1>>,
  <<Cat(<<Words(<<"objective", "goal">>), Spaces,
          Opt(Cat(<<ILit("is"), Spaces, ILit("to"), Spaces>>)),
          Opt(Words(<<"write", "create">>)), Spaces, Phrase1(50), Punct3>>), 1>>
>>

lim_patterns == <<
  <<Cat(<<Words(<<"without", "no", "only", "limit", "restrict", "maximum">>),
          Spaces, Phrase1(40), Alt(<<Punct3, ILit("and")>>)>>), 1>>
>>

out_patterns == <<
  <<Cat(<<Words(<<"output", "format", "return", "provide">>), Spaces,
          Opt(Cat(<<ILit("as"), Spaces>>)), Opt(Cat(<<ILit("a"), Spaces>>)),
          Phrase1(40), Alt(<<Punct3, EndOfText>>)>>), 1>>
>>

\* TECHNIQUE_KEYWORDS, in dictionary order: <<keyword, operator>>
TECHNIQUE_KEYWORDS == <<
  <<"step by step", "THINK:StepByStep">>,
  <<"chain of thought", "THINK:ChainOfThought">>,
  <<"json", "OUT:JSON">>,
  <<"table", "OUT:Table">>,
  <<"markdown", "OUT:Markdown">>,
  <<"code", "GEN:Code">>,
  <<"script", "GEN:Script">>,
  <<"function", "GEN:Function">>,
  <<"bullet points", "OUT:Bullets">>,
  <<"list", "OUT:List">>,
  <<"concise", "LIM:Concise">>,
  <<"detailed", "LIM:Detailed">>,
  <<"brief", "LIM:Brief">>,
  <<"example", "CTX:Example">>,
  <<"bug", "EVAL:Bugs">>,
  <<"security", "EVAL:Security">>,
  <<"performance", "EVAL:Performance">>
>>

\* the [:40] and [:50] slices of the captured values
RoleMax == 40
ObjectiveMax == 50
ConstraintMax == 40
OutputMax == 40

\* if len(value) > 1: ... -- "" stands for a value the test rejects
ActValue(role) == IF Len(role) > 1 THEN normalize_role(role) ELSE ""
ObjValue(objective) == IF Len(objective) > 1 THEN objective ELSE ""
LimValue(constraint) == IF Len(constraint) > 1 THEN constraint ELSE ""
OutValue(output_format) ==
  IF Len(output_format) > 1 THEN normalize_output(output_format) ELSE ""

\* CategoryValue with a fault: the captured text is not cut to its first characters
CategoryValueWhole(cat, captured) ==
  CASE cat = "ACT" -> ActValue(Strip(captured))
    [] cat = "OBJ" -> ObjValue(shorten_term(Strip(captured)))
    [] cat = "LIM" -> LimValue(Strip(captured))
    [] cat = "OUT" -> OutValue(Strip(captured))

\* the value a category makes of the captured text
CategoryValue(cat, captured) ==
  CASE cat = "ACT" -> ActValue(Prefix(Strip(captured), RoleMax))
    [] cat = "OBJ" -> ObjValue(shorten_term(Prefix(Strip(captured), ObjectiveMax)))
    [] cat = "LIM" -> LimValue(Prefix(Strip(captured), ConstraintMax))
    [] cat = "OUT" -> OutValue(Prefix(Strip(captured), OutputMax))

\* the loop over one category's patterns from pattern k on: the first pattern that
\* matches with an accepted value wins; a pattern that does not match, or whose
\* value is rejected, passes to the next one
RECURSIVE TryPatterns(_, _, _, _)
RECURSIVE TryValue(_, _, _, _, _, _)

\* the value of match m of pattern k, "" when there is no match
ValueOf(cat, patterns, k, text, m) ==
  IF m.ok THEN CategoryValue(cat, GroupText(text, m, patterns[k][2])) ELSE ""

TryMatch(cat, patterns, k, text, m) ==
  TryValue(cat, patterns, k, text, m, ValueOf(cat, patterns, k, text, m))

TryValue(cat, patterns, k, text, m, value) ==
  IF value # "" THEN [hit |-> TRUE, m |-> m, value |-> value]
  ELSE TryPatterns(cat, patterns, k + 1, text)

TryPatterns(cat, patterns, k, text) ==
  IF k > Len(patterns) THEN [hit |-> FALSE, m |-> Fail, value |-> ""]
  ELSE TryMatch(cat, patterns, k, text, Search(patterns[k][1], text))

\* remaining[:match.start()] + ' ' + remaining[match.end():]
Excise(text, m) == Upto(text, m.s - 1) \o " " \o From(text, m.e)

\* the same cut on the sequence that records, for each character of the working
\* text, its position in the text handed to _extract_operators (0: an inserted space)
ExciseOrigin(org, m) == SubSeq(org, 1, m.s - 1) \o <<0>> \o SubSeq(org, m.e, Len(org))

\* the positions (of the text handed to _extract_operators) that s[a..b-1] holds
SpanOf(org, a, b) == {org[j] : j \in a..(b - 1)} \ {0}

\* Emit with a fault: the token is emitted and the working text left as it was
EmitKeep(cat, text, org, r) ==
  IF r.hit
  THEN [hit |-> TRUE,
        token |-> [text |-> cat \o ":" \o r.value, cat |-> cat, kw |-> 0,
                   span |-> SpanOf(org, r.m.s, r.m.e)],
        remaining |-> text,
        origin |-> org]
  ELSE [hit |-> FALSE, token |-> <<>>, remaining |-> text, origin |-> org]

\* what a category does with the outcome r of its patterns: the token is emitted
\* and the matched span cut out of the working text
Emit(cat, text, org, r) ==
  IF r.hit
  THEN [hit |-> TRUE,
        token |-> [text |-> cat \o ":" \o r.value, cat |-> cat, kw |-> 0,
                   span |-> SpanOf(org, r.m.s, r.m.e)],
        remaining |-> Excise(text, r.m),
        origin |-> ExciseOrigin(org, r.m)]
  ELSE [hit |-> FALSE, token |-> <<>>, remaining |-> text, origin |-> org]

\* one category of _extract_operators applied to the working text
ExtractCategory(cat, patterns, text, org) ==
  Emit(cat, text, org, TryPatterns(cat, patterns, 1, text))

\* the technique-keyword loop from keyword k on.  str.replace accepts count as a
\* keyword argument from Python 3.13 on; an older interpreter raises TypeError at
\* the first keyword found (kwarg: whether the interpreter accepts it).
RECURSIVE ScanKeywords(_, _, _, _, _)
RECURSIVE ScanFound(_, _, _, _, _, _)

\* keyword k occurs: its token is appended and its first occurrence (at position
\* cut, 0 when the text holds it in another case only) removed
ScanFound(k, ops, text, org, kwarg, cut) ==
  IF ~kwarg
  THEN [raised |-> TRUE, operators |-> ops, remaining |-> text, origin |-> org]
  ELSE ScanKeywords(k + 1,
         Append(ops, [text |-> TECHNIQUE_KEYWORDS[k][2], cat |-> "KW", kw |-> k,
                      span |-> IF cut = 0 THEN {}
                               ELSE SpanOf(org, cut, cut + Len(TECHNIQUE_KEYWORDS[k][1]))]),
         ReplaceFirst(text, TECHNIQUE_KEYWORDS[k][1], ""),
         IF cut = 0 THEN org
         ELSE SubSeq(org, 1, cut - 1)
              \o SubSeq(org, cut + Len(TECHNIQUE_KEYWORDS[k][1]), Len(org)),
         kwarg)

ScanKeywords(k, ops, text, org, kwarg) ==
  IF k > Len(TECHNIQUE_KEYWORDS)
  THEN [raised |-> FALSE, operators |-> ops, remaining |-> text, origin |-> org]
  ELSE IF ~Contains(Lower(text), Lower(TECHNIQUE_KEYWORDS[k][1]))
  THEN ScanKeywords(k + 1, ops, text, org, kwarg)
  ELSE ScanFound(k, ops, text, org, kwarg, Find(text, TECHNIQUE_KEYWORDS[k][1]))

\* TokenEstimate with a fault: the quotient rounded to the nearest integer
TokenEstimateRounded(s) == (Len(s) + 2) \div 4

\* len(s) // 4
TokenEstimate(s) == Len(s) \div 4

\* round(num / den, 0) for den > 0, halves to the even neighbour
RoundHalfEven(num, den) ==
  LET q == num \div den
      r == num - q * den
  IN IF 2 * r < den THEN q
     ELSE IF 2 * r > den THEN q + 1
     ELSE IF q % 2 = 0 THEN q ELSE q + 1

\* CompressionRatio with a fault: a negative ratio is clamped to 0
CompressionRatioClamped(original, final) ==
  LET d == IF original > 1 THEN original ELSE 1
  IN IF final > d THEN 0 ELSE RoundHalfEven((d - final) * 1000, d)

\* round((1 - final/max(original, 1)) * 100, 1), in tenths of a percent (the exact
\* quotient rounded; it is the float's rounding while original < 80)
CompressionRatio(original, final) ==
  LET d == IF original > 1 THEN original ELSE 1
  IN RoundHalfEven((d - final) * 1000, d)

\* Reduction with a fault: an original of 0 is reported as no reduction
ReductionGuarded(original, compact) ==
  IF original = 0 THEN 0 ELSE RoundHalfEven((original - compact) * 1000, original)

\* (1 - compact/max(original, 1)) * 100 to one decimal, in tenths of a percent
\* (the exact quotient rounded; it is the float's rounding while original < 80)
Reduction(original, compact) ==
  LET d == IF original > 1 THEN original ELSE 1
  IN RoundHalfEven((d - compact) * 1000, d)

\* get_compression_report(original, compressed)
get_compression_report(original, compressed) ==
  [original_words |-> WordCount(original),
   compressed_words |-> WordCount(compressed),
   word_reduction |-> Reduction(WordCount(original), WordCount(compressed)),
   original_tokens |-> TokenEstimate(original),
   compressed_tokens |-> TokenEstimate(compressed),
   token_reduction |-> Reduction(TokenEstimate(original), TokenEstimate(compressed)),
   efficiency_gain |-> Reduction(TokenEstimate(original), TokenEstimate(compressed))]

\* the [:100] excerpt of the residual text
ExcerptMax == 100

\* the parts without the repetitions of an earlier part
Distinct(parts) ==
  LET keep == {k \in 1..Len(parts) : \A j \in 1..(k - 1) : parts[j] # parts[k]}
  IN [i \in 1..Cardinality(keep) |->
        parts[CHOOSE k \in keep : Cardinality({j \in keep : j <= k}) = i]]

\* BuildFinal with a fault: no UNCLASSIFIED for an empty residual text
BuildFinalNoFallback(lzip_parts, remaining_text) ==
  IF lzip_parts # <<>> THEN Join(lzip_parts, " ")
  ELSE Prefix(remaining_text, ExcerptMax)

\* BuildFinal with a fault: the residual text is not cut to its excerpt
BuildFinalWhole(lzip_parts, remaining_text) ==
  IF lzip_parts # <<>> THEN Join(lzip_parts, " ")
  ELSE IF remaining_text # "" THEN remaining_text
  ELSE "UNCLASSIFIED"

\* BuildFinal with a fault: a token emitted twice is kept once
BuildFinalDistinct(lzip_parts, remaining_text) ==
  IF lzip_parts # <<>> THEN Join(Distinct(lzip_parts), " ")
  ELSE IF remaining_text # "" THEN Prefix(remaining_text, ExcerptMax)
  ELSE "UNCLASSIFIED"

\* BuildFinal with a fault: the residual text follows the tokens
BuildFinalWithRest(lzip_parts, remaining_text) ==
  IF lzip_parts # <<>>
  THEN Join(lzip_parts, " ") \o (IF remaining_text # "" THEN " " \o remaining_text ELSE "")
  ELSE IF remaining_text # "" THEN Prefix(remaining_text, ExcerptMax)
  ELSE "UNCLASSIFIED"

\* Step 6 of translate_to_lzip
BuildFinal(lzip_parts, remaining_text) ==
  IF lzip_parts # <<>> THEN Join(lzip_parts, " ")
  ELSE IF remaining_text # "" THEN Prefix(remaining_text, ExcerptMax)
  ELSE "UNCLASSIFIED"

TokenTexts(ops) == [k \in 1..Len(ops) |-> ops[k].text]

(***************************************************************************)
(* translate_from_lzip                                                     *)
(***************************************************************************)
\* r'XXX:(\w+)' and r'@(\w+)'
Tagged(prefix) == Cat(<<Lit(prefix), Grp(1, Plus(Cls(WordChar)))>>)

\* the substitutions of translate_from_lzip, in the order of lines 360-367
from_lzip_subs == <<
  <<Tagged("ACT:"), <<[lit |-> "Act as "], [grp |-> 1]>>>>,
  <<Tagged("OBJ:"), <<[lit |-> "Objective: "], [grp |-> 1]>>>>,
  <<Tagged("LIM:"), <<[lit |-> "Limit: "], [grp |-> 1]>>>>,
  <<Tagged("CTX:"), <<[lit |-> "Context: "], [grp |-> 1]>>>>,
  <<Tagged("OUT:"), <<[lit |-> "Output format: "], [grp |-> 1]>>>>,
  <<Lit("=>"), To("leading to")>>,
  <<Lit("|"), To("and then")>>,
  <<Tagged("@"), <<[lit |-> "at "], [grp |-> 1]>>>>
>>

\* the substitutions k, k+1, ... applied in turn
RECURSIVE ApplyFromLzip(_, _)
ApplyFromLzip(text, k) ==
  IF k > Len(from_lzip_subs) \/ text = "" THEN text
  ELSE ApplyFromLzip(Sub(from_lzip_subs[k][1], from_lzip_subs[k][2], text, 0), k + 1)

\* translate_from_lzip with a fault: each substitution replaces the first match only
RECURSIVE ApplyFromLzipOnce(_, _)
ApplyFromLzipOnce(text, k) ==
  IF k > Len(from_lzip_subs) \/ text = "" THEN text
  ELSE ApplyFromLzipOnce(Sub(from_lzip_subs[k][1], from_lzip_subs[k][2], text, 1), k + 1)

translate_from_lzip_once(lzip_prompt0) == ApplyFromLzipOnce(lzip_prompt0, 1)

translate_from_lzip(lzip_prompt0) == ApplyFromLzip(lzip_prompt0, 1)

(***************************************************************************)
(* The inputs: texts made of at most MaxFrags fragments                    *)
(***************************************************************************)
MaxFrags == 3

\* 34 characters that no pattern matches: three of them exceed the 100 of the excerpt
Pad == "xxxxxxxxxxxxxxxxxxxxxxxxxxxxxxxxxx"

Frags == {" ", ", ", "Please ", "assume an expert, ", "write parser to ",
          "no bug, ", "return json", "json", "scriptable", Pad}

Texts == UNION {[1..n -> Frags] : n \in 0..MaxFrags}

Concat(fs) == Join(fs, "")

\* the compact texts given to translate_from_lzip: at most MaxPieces pieces
MaxPieces == 3

Pieces == {"ACT:Dev", "OBJ:Fix_Bug", " ", "ACT:", "LIM:a", "CTX:b", "OUT:c", "=>",
           "|", "@x", "x"}

LzipTexts == UNION {[1..n -> Pieces] : n \in 0..MaxPieces}

\* the prompts of the requests, and the batches of at most MaxBatch of them
MaxBatch == 3

Prompts == {"", "write parser to ", "return json", "Please no bug, xxxxxxxxx",
            "ACT:Dev OBJ:Fix_Bug"}

BatchItems == {"write parser to ", "return json", "Please no bug, xxxxxxxxx", "json",
               "ACT:Dev OBJ:Fix_Bug"}

\* the texts given to the normalization and phrase-compression pass: a word of a
\* filler pattern repeated at most MaxRepeat times, then a tail
MaxRepeat == 7

NormWords == {"may ", "only ", "that ", "the x ", "for me "}

NormTails == {"", "you just should", "Please, x;:"}

RECURSIVE Repeat(_, _)
Repeat(w, n) == IF n = 0 THEN "" ELSE w \o Repeat(w, n - 1)

NormTexts == {Repeat(w, n) \o t : w \in NormWords, n \in 0..MaxRepeat, t \in NormTails}

\* the calls made on one translator: at most MaxCalls, with these arguments
MaxCalls == 3

SessionTexts == {"write parser to ", "return json", "json"}

SessionLzips == {"ACT:Dev OBJ:Fix_Bug", "a=>b"}

SessionPairs == {<<"write parser to ", "OBJ:parser">>, <<"", "UNCLASSIFIED">>}

\* the action names of the requests: the six actions, two of them in another
\* case, and names that are no action
ActionNames == {"translate_to_lzip", "translate_from_lzip", "batch_translate",
                "get_dictionary", "get_templates", "get_version", "Translate_To_LZIP",
                "GET_VERSION", "compress", "translate", ""}

(***************************************************************************)
(* State                                                                   *)
(***************************************************************************)
VARIABLES
  pc,              \* where the call of translate_to_lzip stands
  kwarg,           \* the interpreter accepts str.replace(..., count=1) (Python >= 3.13)
  english_prompt,  \* the argument of the call
  processed,       \* the text after Steps 1 and 2
  remaining,       \* the working text of _extract_operators, then remaining_text
  origin,          \* for each character of remaining, its position in processed (0: inserted)
  operators,       \* the tokens emitted so far
  final_lzip,      \* the compact string returned
  metadata,        \* the metadata record returned
  report,          \* the compression report of the call, once asked for
  lzip_prompt,     \* the argument of a call of translate_from_lzip
  english,         \* the text translate_from_lzip returns
  request,         \* the request process_request is called with
  response,        \* what process_request does with it: a record returned or an exception
  config,          \* self.config of the translator
  log,             \* the calls made on the translator so far, in their order, each with its
                   \* arguments and its result
  received,        \* the lines the stdio server has read from its input, in their order
  stdout,          \* the lines the stdio server has printed, in their order
  running,         \* self.running of the console
  keyboard,        \* the lines the console's input() has yet to return; EOFError after them
  lines,           \* lines of read_multiline_input
  consecutive_empty,  \* consecutive_empty of read_multiline_input
  cmd,             \* the text read_multiline_input has returned to run_interactive
  screen,          \* what the last command of the console has printed or raised
  noui             \* the console is that of cli_noui.py (TRUE) or of cli.py (FALSE)

vars == <<pc, kwarg, english_prompt, processed, remaining, origin, operators,
          final_lzip, metadata, report, lzip_prompt, english, request, response,
          config, log, received, stdout, running, keyboard, lines, consecutive_empty,
          cmd, screen, noui>>

\* the locals of a call of translate_to_lzip, and what lies outside such a call
locals == <<english_prompt, processed, remaining, origin, operators, final_lzip,
            metadata, report>>
\* the state of the stdio server and of the console
shells == <<received, stdout, running, keyboard, lines, consecutive_empty, cmd, screen,
            noui>>
outside == <<lzip_prompt, english, request, response, config, log, shells>>

NoReport == [original_words |-> 0, compressed_words |-> 0, word_reduction |-> 0,
             original_tokens |-> 0, compressed_tokens |-> 0, token_reduction |-> 0,
             efficiency_gain |-> 0]

NoMetadata == [original_length |-> 0, original_tokens |-> 0, final_length |-> 0,
               final_tokens |-> 0, compression_ratio |-> 0]

\* @dataclass LZIPConfig
LZIPConfig(aggressive) ==
  [aggressive_mode |-> aggressive, preserve_examples |-> TRUE,
   include_annotations |-> FALSE, min_phrase_length |-> 3]

(***************************************************************************)
(* translate_to_lzip as one function of its argument                       *)
(***************************************************************************)
\* the four categories of _extract_operators, in the order of the code
categories ==
  << <<"ACT", act_patterns>>, <<"OBJ", obj_patterns>>, <<"LIM", lim_patterns>>,
     <<"OUT", out_patterns>> >>

RECURSIVE ExtractFrom(_, _, _, _)

\* operators.append(...) of category k, then the categories after it
ExtractTaken(k, ops, r) ==
  IF r.hit THEN ExtractFrom(k + 1, Append(ops, r.token), r.remaining, r.origin)
  ELSE ExtractFrom(k + 1, ops, r.remaining, r.origin)

\* the categories from the k-th on: lines 172-243 (no pattern matches in an empty
\* text)
ExtractFrom(k, ops, text, org) ==
  IF k > Len(categories) \/ text = ""
  THEN [operators |-> ops, remaining |-> text, origin |-> org]
  ELSE ExtractTaken(k, ops, ExtractCategory(categories[k][1], categories[k][2], text, org))

\* the keyword loop after the categories, and line 252
ExtractScanned(r) ==
  IF r.raised THEN [raised |-> TRUE, operators |-> <<>>, remaining |-> ""]
  ELSE [raised |-> FALSE, operators |-> r.operators,
        remaining |-> Strip(Sub(Spaces, To(" "), r.remaining, 0))]

ExtractKeywordsOf(e, kw) ==
  ExtractScanned(ScanKeywords(1, e.operators, e.remaining, e.origin, kw))

\* _extract_operators(text): the tokens and the remaining text, or the TypeError
extract_operators(text, kw) ==
  ExtractKeywordsOf(ExtractFrom(1, <<>>, text, [j \in 1..Len(text) |-> j]), kw)

\* the exception messages of the interpreter
NoKeywordArguments == "str.replace() takes no keyword arguments"
NoSplit == "'NoneType' object has no attribute 'split'"
NoString == "expected string or bytes-like object, got 'NoneType'"

\* a call of the translator that raises
Raises(msg) == [raised |-> TRUE, message |-> msg, lzip_prompt |-> "", metadata |-> NoMetadata]

\* lines 129-132 and 158-165: the metadata of a translation
MetadataOf(english_prompt0, final) ==
  [original_length |-> WordCount(english_prompt0),
   original_tokens |-> TokenEstimate(english_prompt0),
   final_length |-> WordCount(final),
   final_tokens |-> TokenEstimate(final),
   compression_ratio |-> CompressionRatio(TokenEstimate(english_prompt0),
                                          TokenEstimate(final))]

\* return final_lzip, metadata
Translated(english_prompt0, final) ==
  [raised |-> FALSE, message |-> "", lzip_prompt |-> final,
   metadata |-> MetadataOf(english_prompt0, final)]

\* Steps 5 and 6 on the outcome e of _extract_operators
TranslationOf(english_prompt0, e) ==
  IF e.raised THEN Raises(NoKeywordArguments)
  ELSE Translated(english_prompt0,
         BuildFinal(TokenTexts(e.operators),
                    Strip(Sub(Spaces, To(" "), clean_text(e.remaining), 0))))

\* translate_to_lzip(english_prompt) on an interpreter that accepts count=1 (kw) or not
translate_to_lzip(english_prompt0, kw) ==
  TranslationOf(english_prompt0,
                extract_operators(compress_phrases(clean_text(Lower(english_prompt0))), kw))

(***************************************************************************)
(* The adapter: LZIPMCPServer                                              *)
(***************************************************************************)
\* a Python value of a request: a string, None, or no value (the key is absent)
Str(v) == [t |-> "str", v |-> v]
None == [t |-> "None", v |-> ""]
Absent == [t |-> "absent", v |-> ""]

\* request.get(key, default)
Get(value, default) == IF value = Absent THEN default ELSE value

\* no request is being processed
NoRequest ==
  [action |-> Absent, prompt |-> Absent, lzip_prompt |-> Absent, prompts |-> <<>>,
   to_lzip |-> TRUE, aggressive |-> FALSE]

NoAggregate ==
  [present |-> FALSE, total_original_tokens |-> 0, total_compressed_tokens |-> 0,
   compression_ratio |-> 0]

\* a response without its fields: raised tells that process_request did not return,
\* translations counts the calls of translate_to_lzip and translate_from_lzip made
NoResponse ==
  [raised |-> FALSE, status |-> "", message |-> "", action |-> "",
   available_actions |-> <<>>, lzip_prompt |-> "", original_prompt |-> "",
   english_prompt |-> "", metadata |-> NoMetadata, compression_report |-> NoReport,
   count |-> 0, results |-> <<>>, aggregate_compression |-> NoAggregate,
   name |-> "", version |-> "", body |-> "", translations |-> 0]

\* no call has been made on the translator
NoCalls == <<>>

\* the console has printed nothing yet
NoScreen == ""

\* a handler leaves with an exception after n calls of the translator
Raised(msg, n) == [NoResponse EXCEPT !.raised = TRUE, !.message = msg, !.translations = n]

\* translator.translate_to_lzip(prompt) for a prompt of any type
ToLzip(prompt, kw) ==
  IF prompt.t = "str" THEN translate_to_lzip(prompt.v, kw) ELSE Raises(NoSplit)

\* the record handle_translate_to_lzip returns for the translation r
ToLzipRecord(prompt, r) ==
  IF r.raised THEN Raised(r.message, 1)
  ELSE [NoResponse EXCEPT
          !.status = "success", !.lzip_prompt = r.lzip_prompt,
          !.original_prompt = prompt.v, !.metadata = r.metadata,
          !.compression_report = get_compression_report(prompt.v, r.lzip_prompt),
          !.translations = 1]

handle_translate_to_lzip(prompt, aggressive, kw) == ToLzipRecord(prompt, ToLzip(prompt, kw))

handle_translate_from_lzip(lzip_prompt0) ==
  IF lzip_prompt0.t # "str" THEN Raised(NoString, 1)
  ELSE [NoResponse EXCEPT
          !.status = "success", !.english_prompt = translate_from_lzip(lzip_prompt0.v),
          !.lzip_prompt = lzip_prompt0.v, !.translations = 1]

\* the batch so far: results, the two totals, and the exception that ended the loop
NoBatch == [raised |-> FALSE, message |-> "", results |-> <<>>,
            total_original_tokens |-> 0, total_compressed_tokens |-> 0, calls |-> 0]

\* BatchAdd with a fault: the totals are those of the last prompt
BatchAddLast(b, prompt, r) ==
  IF r.raised THEN [b EXCEPT !.raised = TRUE, !.message = r.message, !.calls = @ + 1]
  ELSE [b EXCEPT
          !.results = Append(@, [original |-> prompt.v, translated |-> r.lzip_prompt,
                                 metadata |-> r.metadata]),
          !.total_original_tokens = r.metadata.original_tokens,
          !.total_compressed_tokens = r.metadata.final_tokens,
          !.calls = @ + 1]

\* BatchAdd with a fault: the result is put before the results so far
BatchAddFront(b, prompt, r) ==
  IF r.raised THEN [b EXCEPT !.raised = TRUE, !.message = r.message, !.calls = @ + 1]
  ELSE [b EXCEPT
          !.results = <<[original |-> prompt.v, translated |-> r.lzip_prompt,
                         metadata |-> r.metadata]>> \o @,
          !.total_original_tokens = @ + r.metadata.original_tokens,
          !.total_compressed_tokens = @ + r.metadata.final_tokens,
          !.calls = @ + 1]

\* lines 76-83: one prompt of the batch, translated to r
BatchAdd(b, prompt, r) ==
  IF r.raised THEN [b EXCEPT !.raised = TRUE, !.message = r.message, !.calls = @ + 1]
  ELSE [b EXCEPT
          !.results = Append(@, [original |-> prompt.v, translated |-> r.lzip_prompt,
                                 metadata |-> r.metadata]),
          !.total_original_tokens = @ + r.metadata.original_tokens,
          !.total_compressed_tokens = @ + r.metadata.final_tokens,
          !.calls = @ + 1]

\* lines 85-89: one prompt of the batch, translated back
BatchAddBack(b, prompt) ==
  IF prompt.t # "str" THEN [b EXCEPT !.raised = TRUE, !.message = NoString, !.calls = @ + 1]
  ELSE [b EXCEPT
          !.results = Append(@, [original |-> prompt.v,
                                 translated |-> translate_from_lzip(prompt.v),
                                 metadata |-> NoMetadata]),
          !.calls = @ + 1]

RECURSIVE BatchLoop(_, _, _, _, _)

\* for prompt in prompts: lines 74-89
BatchLoop(b, prompts, k, to_lzip, kw) ==
  IF k > Len(prompts) \/ b.raised THEN b
  ELSE BatchLoop(IF to_lzip THEN BatchAdd(b, prompts[k], ToLzip(prompts[k], kw))
                 ELSE BatchAddBack(b, prompts[k]),
                 prompts, k + 1, to_lzip, kw)

\* lines 95-99
AggregateOf(b, to_lzip) ==
  IF ~to_lzip THEN NoAggregate
  ELSE [present |-> TRUE, total_original_tokens |-> b.total_original_tokens,
        total_compressed_tokens |-> b.total_compressed_tokens,
        compression_ratio |-> Reduction(b.total_original_tokens,
                                        b.total_compressed_tokens)]

\* lines 91-100
BatchRecord(b, to_lzip) ==
  IF b.raised THEN Raised(b.message, b.calls)
  ELSE [NoResponse EXCEPT
          !.status = "success", !.count = Len(b.results), !.results = b.results,
          !.aggregate_compression = AggregateOf(b, to_lzip), !.translations = b.calls]

handle_batch_translate(prompts, to_lzip, kw) ==
  BatchRecord(BatchLoop(NoBatch, prompts, 1, to_lzip, kw), to_lzip)

version == "1.0.0"
name == "L-ZIP MCP Server"

handle_get_dictionary == [NoResponse EXCEPT !.status = "success", !.version = version,
                                            !.body = "operators, examples"]

handle_get_templates == [NoResponse EXCEPT !.status = "success", !.body = "templates"]

\* lines 186-193
available_actions ==
  <<"translate_to_lzip", "translate_from_lzip", "batch_translate", "get_dictionary",
    "get_templates", "get_version">>

\* Unknown with a fault: the prompt of the request is translated all the same
UnknownTranslates(action, req, kw) ==
  [handle_translate_to_lzip(Get(req.prompt, Str("")), FALSE, kw) EXCEPT
     !.status = "error", !.message = "Unknown action: " \o action,
     !.available_actions = available_actions]

\* lines 183-194
Unknown(action, req, kw) ==
  [NoResponse EXCEPT !.status = "error", !.message = "Unknown action: " \o action,
                     !.available_actions = available_actions]

\* lines 158-194: the branch of the action
Dispatch(action, req, kw) ==
  IF action = "translate_to_lzip"
  THEN handle_translate_to_lzip(Get(req.prompt, Str("")), req.aggressive, kw)
  ELSE IF action = "translate_from_lzip"
  THEN handle_translate_from_lzip(Get(req.lzip_prompt, Str("")))
  ELSE IF action = "batch_translate"
  THEN handle_batch_translate(req.prompts, req.to_lzip, kw)
  ELSE IF action = "get_dictionary" THEN handle_get_dictionary
  ELSE IF action = "get_templates" THEN handle_get_templates
  ELSE IF action = "get_version"
  THEN [NoResponse EXCEPT !.status = "success", !.name = name, !.version = version]
  ELSE Unknown(action, req, kw)

\* lines 195-200: an exception of the branch becomes an error record
Caught(action, r) ==
  IF r.raised
  THEN [NoResponse EXCEPT !.status = "error", !.message = r.message, !.action = action,
                          !.translations = r.translations]
  ELSE r

\* process_request(request): line 155 is outside the try, so that an action that is
\* no string leaves process_request with an AttributeError
process_request(req, kw) ==
  IF Get(req.action, Str("")).t # "str"
  THEN Raised("'NoneType' object has no attribute 'lower'", 0)
  ELSE Caught(Lower(Get(req.action, Str("")).v),
              Dispatch(Lower(Get(req.action, Str("")).v), req, kw))

Init ==
  /\ pc = "idle"
  /\ kwarg \in BOOLEAN
  /\ english_prompt = ""
  /\ processed = ""
  /\ remaining = ""
  /\ origin = <<>>
  /\ operators = <<>>
  /\ final_lzip = ""
  /\ metadata = NoMetadata
  /\ report = NoReport
  /\ lzip_prompt = ""
  /\ english = ""
  /\ request = NoRequest
  /\ response = NoResponse
  /\ config = LZIPConfig(FALSE)
  /\ log = NoCalls
  /\ received = <<>>
  /\ stdout = <<>>
  /\ running = TRUE
  /\ keyboard = <<>>
  /\ lines = <<>>
  /\ consecutive_empty = 0
  /\ cmd = ""
  /\ screen = NoScreen
  /\ noui = FALSE

\* translate_to_lzip(english_prompt) is called: lines 129-132
Call ==
  /\ pc = "idle"
  /\ \E fs \in Texts :
       /\ english_prompt' = Concat(fs)
       /\ metadata' = [NoMetadata EXCEPT
                         !.original_length = WordCount(english_prompt'),
                         !.original_tokens = TokenEstimate(english_prompt')]
  /\ processed' = ""
  /\ remaining' = ""
  /\ origin' = <<>>
  /\ operators' = <<>>
  /\ final_lzip' = ""
  /\ pc' = "preprocess"
  /\ UNCHANGED <<kwarg, report>>
  /\ UNCHANGED outside

\* Step 1: lower-case and _clean_text
Preprocess ==
  /\ pc = "preprocess"
  /\ processed' = clean_text(Lower(english_prompt))
  /\ pc' = "compress"
  /\ UNCHANGED <<kwarg, english_prompt, remaining, origin, operators, final_lzip,
                 metadata, report>>
  /\ UNCHANGED outside

\* Step 2: _compress_phrases; Step 3: the working text is the processed text
CompressPhrases ==
  /\ pc = "compress"
  /\ processed' = compress_phrases(processed)
  /\ remaining' = processed'
  /\ origin' = [j \in 1..Len(processed') |-> j]
  /\ pc' = "act"
  /\ UNCHANGED <<kwarg, english_prompt, operators, final_lzip, metadata, report>>
  /\ UNCHANGED outside

\* Take with a fault: the new token is put before the tokens emitted so far
TakeFirst(r) ==
  /\ operators' = IF r.hit THEN <<r.token>> \o operators ELSE operators
  /\ remaining' = r.remaining
  /\ origin' = r.origin

\* the outcome r of a category is taken over: operators.append(...) and the new
\* working text
Take(r) ==
  /\ operators' = IF r.hit THEN Append(operators, r.token) ELSE operators
  /\ remaining' = r.remaining
  /\ origin' = r.origin

\* ROLE (ACT): lines 172-189
ExtractAct ==
  /\ pc = "act"
  /\ Take(ExtractCategory("ACT", act_patterns, remaining, origin))
  /\ pc' = "obj"
  /\ UNCHANGED <<kwarg, english_prompt, processed, final_lzip, metadata, report>>
  /\ UNCHANGED outside

\* OBJECTIVE (OBJ): lines 191-208
ExtractObj ==
  /\ pc = "obj"
  /\ Take(ExtractCategory("OBJ", obj_patterns, remaining, origin))
  /\ pc' = "lim"
  /\ UNCHANGED <<kwarg, english_prompt, processed, final_lzip, metadata, report>>
  /\ UNCHANGED outside

\* CONSTRAINTS (LIM): lines 210-225
ExtractLim ==
  /\ pc = "lim"
  /\ Take(ExtractCategory("LIM", lim_patterns, remaining, origin))
  /\ pc' = "out"
  /\ UNCHANGED <<kwarg, english_prompt, processed, final_lzip, metadata, report>>
  /\ UNCHANGED outside

\* OUTPUT FORMAT (OUT): lines 227-243
ExtractOut ==
  /\ pc = "out"
  /\ Take(ExtractCategory("OUT", out_patterns, remaining, origin))
  /\ pc' = "kw"
  /\ UNCHANGED <<kwarg, english_prompt, processed, final_lzip, metadata, report>>
  /\ UNCHANGED outside

\* the outcome r of the keyword loop: the TypeError leaves _extract_operators, or
\* line 252 collapses the whitespace of what remains
Scanned(r) ==
  IF r.raised
  THEN /\ pc' = "raised"
       /\ UNCHANGED <<operators, remaining, origin>>
  ELSE /\ pc' = "build"
       /\ operators' = r.operators
       /\ remaining' = Strip(Sub(Spaces, To(" "), r.remaining, 0))
       /\ origin' = <<>>

\* the technique-keyword loop and the final whitespace collapse of _extract_operators
ExtractKeywords ==
  /\ pc = "kw"
  /\ Scanned(ScanKeywords(1, operators, remaining, origin, kwarg))
  /\ UNCHANGED <<kwarg, english_prompt, processed, final_lzip, metadata, report>>
  /\ UNCHANGED outside

\* Steps 5 and 6 and the statistics: lines 148-165
Build ==
  /\ pc = "build"
  /\ remaining' = Strip(Sub(Spaces, To(" "), clean_text(remaining), 0))
  /\ final_lzip' = BuildFinal(TokenTexts(operators), remaining')
  /\ metadata' = [metadata EXCEPT
                    !.final_length = WordCount(final_lzip'),
                    !.final_tokens = TokenEstimate(final_lzip'),
                    !.compression_ratio =
                        CompressionRatio(metadata.original_tokens, TokenEstimate(final_lzip'))]
  /\ pc' = "returned"
  /\ UNCHANGED <<kwarg, english_prompt, processed, origin, operators, report>>
  /\ UNCHANGED outside

\* the adapter asks for the report of the call: get_compression_report(prompt, lzip_prompt)
GetCompressionReport ==
  /\ pc = "returned"
  /\ report' = get_compression_report(english_prompt, final_lzip)
  /\ pc' = "reported"
  /\ UNCHANGED <<kwarg, english_prompt, processed, remaining, origin, operators,
                 final_lzip, metadata>>
  /\ UNCHANGED outside

\* the caller has the result (or the exception): the translator keeps nothing of the
\* call, and is ready for the next one
Return ==
  /\ pc \in {"returned", "reported", "raised"}
  /\ pc' = "idle"
  /\ english_prompt' = ""
  /\ processed' = ""
  /\ remaining' = ""
  /\ origin' = <<>>
  /\ operators' = <<>>
  /\ final_lzip' = ""
  /\ metadata' = NoMetadata
  /\ report' = NoReport
  /\ UNCHANGED kwarg
  /\ UNCHANGED outside

\* translate_from_lzip(lzip_prompt) is called and returns
TranslateFromLzip ==
  /\ pc = "idle"
  /\ \E ps \in LzipTexts : lzip_prompt' = Concat(ps)
  /\ english' = translate_from_lzip(lzip_prompt')
  /\ pc' = "from_lzip_returned"
  /\ UNCHANGED <<kwarg, locals, request, response, config, log, shells>>

\* the caller has the text
ReturnFromLzip ==
  /\ pc = "from_lzip_returned"
  /\ pc' = "idle"
  /\ lzip_prompt' = ""
  /\ english' = ""
  /\ UNCHANGED <<kwarg, locals, request, response, config, log, shells>>

\* the requests: for each action the fields it reads take all their values, and a
\* request of another action may carry a prompt all the same
Request(action, prompt, lzip_prompt0, prompts, to_lzip, aggressive) ==
  [action |-> action, prompt |-> prompt, lzip_prompt |-> lzip_prompt0,
   prompts |-> prompts, to_lzip |-> to_lzip, aggressive |-> aggressive]

PromptValues == {Absent, None} \cup {Str(p) : p \in Prompts}

Batches == UNION {[1..n -> {None} \cup {Str(p) : p \in BatchItems}] : n \in 0..MaxBatch}

Requests ==
  {Request(Str(a), p, Absent, <<>>, TRUE, g) :
     a \in {"translate_to_lzip", "Translate_To_LZIP"}, p \in PromptValues, g \in BOOLEAN}
  \cup {Request(Str("translate_from_lzip"), Absent, p, <<>>, TRUE, FALSE) :
          p \in PromptValues}
  \cup {Request(Str("batch_translate"), Absent, Absent, ps, t, FALSE) :
          ps \in Batches, t \in BOOLEAN}
  \cup {Request(a, p, Absent, ps, TRUE, FALSE) :
          a \in {Absent, None} \cup {Str(n) : n \in ActionNames},
          p \in {Absent, Str("write parser to ")},
          ps \in {<<>>, <<Str("return json")>>}}

\* process_request(request) is called and returns a record or raises
ProcessRequest ==
  /\ pc = "idle"
  /\ \E req \in Requests : request' = req
  /\ response' = process_request(request', kwarg)
  /\ pc' = "responded"
  /\ UNCHANGED <<kwarg, locals, lzip_prompt, english, config, log, shells>>

\* the caller has the response
Respond ==
  /\ pc = "responded"
  /\ pc' = "idle"
  /\ request' = NoRequest
  /\ response' = NoResponse
  /\ UNCHANGED <<kwarg, locals, lzip_prompt, english, config, log, shells>>

ServerNext ==
  \/ ProcessRequest
  \/ Respond

\* the requests made to the adapter
ServerSpec == Init /\ [][ServerNext]_vars

\* Steps 1 and 2 of translate_to_lzip on their own, _compress_phrases pass by pass.
\* Step 1: lower-case and _clean_text
Normalize ==
  /\ pc = "idle"
  /\ \E text \in NormTexts : english_prompt' = text
  /\ processed' = clean_text(Lower(english_prompt'))
  /\ pc' = "phrase_map"
  /\ UNCHANGED <<kwarg, remaining, origin, operators, final_lzip, metadata, report>>
  /\ UNCHANGED outside

\* lines 269-270: the loop over PHRASE_MAP
PhraseMap ==
  /\ pc = "phrase_map"
  /\ processed' = ApplyPhraseMap(processed, 1)
  /\ pc' = "filler1"
  /\ UNCHANGED <<kwarg, english_prompt, remaining, origin, operators, final_lzip,
                 metadata, report>>
  /\ UNCHANGED outside

\* where the loop over fillers stands: before the pass of filler k
FillerPc == <<"filler1", "filler2", "filler3", "filler4", "filler5">>

\* lines 281-282: the pass of one filler
Filler ==
  /\ \E k \in 1..Len(fillers) :
       /\ pc = FillerPc[k]
       /\ processed' = ApplyFiller(processed, k)
       /\ pc' = IF k < Len(fillers) THEN FillerPc[k + 1] ELSE "punct"
  /\ UNCHANGED <<kwarg, english_prompt, remaining, origin, operators, final_lzip,
                 metadata, report>>
  /\ UNCHANGED outside

\* lines 285-291: whitespace, punctuation, strip
Punctuation ==
  /\ pc = "punct"
  /\ processed' = Strip(CollapsePunct(DropTrailingPunct(CollapseSpaces(processed))))
  /\ pc' = "compressed"
  /\ UNCHANGED <<kwarg, english_prompt, remaining, origin, operators, final_lzip,
                 metadata, report>>
  /\ UNCHANGED outside

\* _compress_phrases has returned
Compressed ==
  /\ pc = "compressed"
  /\ pc' = "idle"
  /\ english_prompt' = ""
  /\ processed' = ""
  /\ UNCHANGED <<kwarg, remaining, origin, operators, final_lzip, metadata, report>>
  /\ UNCHANGED outside

NormNext ==
  \/ Normalize
  \/ PhraseMap
  \/ Filler
  \/ Punctuation
  \/ Compressed

\* the normalization and phrase-compression pass
NormSpec == Init /\ [][NormNext]_vars

\* the translator after a call with these arguments: no method of LZIPTranslator
\* assigns self.config or another attribute, and none writes to a table of the class
TranslatorChanged(c, args) == [c EXCEPT !.min_phrase_length = Len(args[1])]
TranslatorAfter(c, args) == c

\* a call of operation op with arguments args has returned result (or has raised)
Called(op, args, result) ==
  /\ log' = Append(log, [op |-> op, args |-> args, result |-> result])
  /\ config' = TranslatorAfter(config, args)

SessionToLzip ==
  /\ pc = "idle"
  /\ Len(log) < MaxCalls
  /\ \E text \in SessionTexts :
       Called("translate_to_lzip", <<text>>, translate_to_lzip(text, kwarg))
  /\ UNCHANGED <<pc, kwarg, locals, lzip_prompt, english, request, response, shells>>

SessionFromLzip ==
  /\ pc = "idle"
  /\ Len(log) < MaxCalls
  /\ \E text \in SessionLzips :
       Called("translate_from_lzip", <<text>>, translate_from_lzip(text))
  /\ UNCHANGED <<pc, kwarg, locals, lzip_prompt, english, request, response, shells>>

SessionReport ==
  /\ pc = "idle"
  /\ Len(log) < MaxCalls
  /\ \E pair \in SessionPairs :
       Called("get_compression_report", pair, get_compression_report(pair[1], pair[2]))
  /\ UNCHANGED <<pc, kwarg, locals, lzip_prompt, english, request, response, shells>>

SessionNext ==
  \/ SessionToLzip
  \/ SessionFromLzip
  \/ SessionReport

\* the calls made on one translator, in any order
SessionSpec == Init /\ [][SessionNext]_vars

FromLzipNext ==
  \/ TranslateFromLzip
  \/ ReturnFromLzip

\* the calls of translate_from_lzip
FromLzipSpec == Init /\ [][FromLzipNext]_vars

Next ==
  \/ Call
  \/ Preprocess
  \/ CompressPhrases
  \/ ExtractAct
  \/ ExtractObj
  \/ ExtractLim
  \/ ExtractOut
  \/ ExtractKeywords
  \/ Build
  \/ GetCompressionReport
  \/ Return

Spec == Init /\ [][Next]_vars

(***************************************************************************)
(* Properties of translate_to_lzip and get_compression_report              *)
(***************************************************************************)

\* the call has returned its (compact, metadata) pair
Returned == pc \in {"returned", "reported"}

\* the indices of the tokens of ops that a category pattern emitted
CategoryTokens(ops) == {k \in 1..Len(ops) : ops[k].cat # "KW"}

\* C1: for every input, the empty, the whitespace-only and the filler-only ones
\* included, the compact string translate_to_lzip returns is non-empty
C1_CompactNonEmpty == Returned => final_lzip # ""

\* C1: a text of filler words only has come back as UNCLASSIFIED
C1_Witness ==
  /\ pc = "returned"
  /\ english_prompt = "Please "
  /\ remaining = ""
  /\ final_lzip = "UNCLASSIFIED"

\* C2: normalization is idempotent: the normalization pipeline (lower-casing,
\* _clean_text, _compress_phrases) applied to its own output returns that output
C2_NormalizeIdempotent ==
  pc = "act" => compress_phrases(clean_text(Lower(processed))) = processed

\* the working text after a category has matched positions a..b-1: that span is
\* replaced by one space, and the token's span is the characters of that span
Spliced(a, b) ==
  /\ remaining' = Upto(remaining, a - 1) \o " " \o From(remaining, b)
  /\ origin' = SubSeq(origin, 1, a - 1) \o <<0>> \o SubSeq(origin, b, Len(origin))
  /\ operators'[Len(operators')].span = {origin[j] : j \in a..(b - 1)} \ {0}
  /\ operators'[Len(operators')].span # {}

\* the spans of the tokens of ops are pairwise disjoint
DisjointSpans(ops) ==
  \A i, j \in 1..Len(ops) : i < j => ops[i].span \cap ops[j].span = {}

\* one step of the extraction keeps the claimed spans out of the working text
SpanExcisedStep ==
  /\ (pc \in {"act", "obj", "lim", "out"} /\ Len(operators') > Len(operators)) =>
       \E a \in 1..Len(remaining) :
         /\ a + Len(remaining) - Len(remaining') + 1 > a
         /\ a + Len(remaining) - Len(remaining') + 1 <= Len(remaining) + 1
         /\ Spliced(a, a + Len(remaining) - Len(remaining') + 1)
  /\ pc' \in {"obj", "lim", "out", "kw"} =>
       /\ Len(origin') = Len(remaining')
       /\ \A j \in 1..Len(operators') :
            operators'[j].span \cap {origin'[i] : i \in 1..Len(origin')} = {}
  /\ pc' = "build" => DisjointSpans(operators')

\* C3: when a category emits a token, the whole matched span is replaced by a
\* single space in the working text before a later category is tried, so that no
\* character of a claimed span is in the text a later category or the keyword scan
\* matches
C3_SpanExcised == [][SpanExcisedStep]_vars

\* C3: the output-format category has claimed a span holding "json", and the text
\* left to the keyword scan holds it no more
C3_Witness ==
  /\ pc = "kw"
  /\ \E j \in 1..Len(operators) : operators[j].cat = "OUT" /\ operators[j].span # {}
  /\ Contains(processed, "json")
  /\ ~Contains(remaining, "json")

\* ACT, OBJ, LIM, OUT, then the keywords in the order of TECHNIQUE_KEYWORDS
Rank(tok) ==
  CASE tok.cat = "ACT" -> 1
    [] tok.cat = "OBJ" -> 2
    [] tok.cat = "LIM" -> 3
    [] tok.cat = "OUT" -> 4
    [] tok.cat = "KW" -> 4 + tok.kw

\* C4: in a compact string built from tokens, the tokens stand in the fixed order
\* ACT, OBJ, LIM, OUT, then the keyword tokens in keyword-table order
C4_CategoryOrder ==
  (Returned /\ operators # <<>>) =>
    /\ final_lzip = Join(TokenTexts(operators), " ")
    /\ \A i, j \in 1..Len(operators) :
         i < j => Rank(operators[i]) < Rank(operators[j])

\* C4: two category tokens have come back in category order although the text
\* held the span of the second before the span of the first
C4_Witness ==
  /\ pc = "returned"
  /\ \E i, j \in CategoryTokens(operators) :
       /\ i < j
       /\ Max(operators[j].span) < Min(operators[i].span)

\* C5: every keyword of TECHNIQUE_KEYWORDS that occurs in the remaining text at the
\* start of the keyword scan contributes its token
C5_EveryKeywordEmits ==
  [][(pc = "kw" /\ pc' = "build") =>
       \A k \in 1..Len(TECHNIQUE_KEYWORDS) :
         Contains(remaining, TECHNIQUE_KEYWORDS[k][1]) =>
           \E j \in 1..Len(operators') : operators'[j].kw = k]_vars

\* the output-format pattern and the keyword table have both emitted OUT:JSON
DoubleJson ==
  /\ \E i \in 1..Len(operators) :
       operators[i].cat = "OUT" /\ operators[i].text = "OUT:JSON"
  /\ \E j \in 1..Len(operators) :
       operators[j].cat = "KW" /\ operators[j].text = "OUT:JSON"

\* C6: tokens are not deduplicated: when the output-format pattern and the keyword
\* table both emit OUT:JSON, the compact string holds OUT:JSON twice
C6_NoDeduplication ==
  (Returned /\ DoubleJson) => Count(final_lzip, "OUT:JSON") = 2

\* C6: an input for which both have emitted OUT:JSON has come back
C6_Witness ==
  /\ pc = "returned"
  /\ DoubleJson
  /\ Len(operators) = 2
  /\ final_lzip = "OUT:JSON OUT:JSON"

\* C7: with no token, the compact string is the first 100 characters of the
\* cleaned residual text, and it is UNCLASSIFIED exactly when that text is empty
C7_ResidualExcerpt ==
  (Returned /\ operators = <<>>) =>
    /\ Len(final_lzip) <= 100
    /\ remaining # "" =>
         /\ Len(final_lzip) = (IF Len(remaining) < 100 THEN Len(remaining) ELSE 100)
         /\ final_lzip = SubSeq(remaining, 1, Len(final_lzip))
    /\ final_lzip = "UNCLASSIFIED" <=> remaining = ""

\* C7: a residual text of more than 100 characters has come back cut to 100
C7_Witness ==
  /\ pc = "returned"
  /\ operators = <<>>
  /\ Len(remaining) > 100
  /\ Len(final_lzip) = 100

\* the place of token k in the single-space join of the tokens of ops, less one
RECURSIVE Offset(_, _)
Offset(ops, k) ==
  IF k = 1 THEN 0 ELSE Offset(ops, k - 1) + Len(ops[k - 1].text) + 1

\* C8: with at least one token, the compact string is those tokens joined by
\* single spaces, and nothing else: no residual text is in it
C8_TokensOnly ==
  (Returned /\ operators # <<>>) =>
    /\ Len(final_lzip) = Offset(operators, Len(operators) + 1) - 1
    /\ \A k \in 1..Len(operators) :
         /\ SubSeq(final_lzip, Offset(operators, k) + 1,
                   Offset(operators, k) + Len(operators[k].text)) = operators[k].text
         /\ k > 1 => SubSeq(final_lzip, Offset(operators, k), Offset(operators, k)) = " "

\* C8: tokens have come back while residual text was left after the extraction
C8_Witness ==
  /\ pc = "returned"
  /\ Len(operators) >= 2
  /\ remaining # ""
  /\ ~Contains(final_lzip, remaining)

\* C9: no failure of the extraction reaches the caller: translate_to_lzip returns
\* for every input and never raises
C9_NeverRaises == pc # "raised"

\* t is the floor of a quarter of the length of s
QuarterFloor(t, s) == 4 * t <= Len(s) /\ Len(s) < 4 * t + 4

\* C10: every token estimate is the character count floor-divided by 4:
\* metadata.original_tokens of the input, metadata.final_tokens of the compact
\* string returned, and both estimates of get_compression_report
C10_TokenEstimates ==
  /\ pc # "idle" => QuarterFloor(metadata.original_tokens, english_prompt)
  /\ Returned => QuarterFloor(metadata.final_tokens, final_lzip)
  /\ pc = "reported" =>
       /\ QuarterFloor(report.original_tokens, english_prompt)
       /\ QuarterFloor(report.compressed_tokens, final_lzip)

\* C10: the report of a call whose two lengths are no multiples of 4 has been made
C10_Witness ==
  /\ pc = "reported"
  /\ Len(english_prompt) % 4 = 3
  /\ Len(final_lzip) % 4 = 3
  /\ report.original_tokens > report.compressed_tokens
  /\ report.compressed_tokens > 0

\* the absolute value
Abs(x) == IF x < 0 THEN 0 - x ELSE x

\* r, in tenths of a percent, is (1 - c/d) * 100 rounded to one decimal
NearestTenth(r, d, c) == 2 * Abs(r * d - 1000 * (d - c)) <= d

\* C11: with original_tokens > 0, metadata.compression_ratio is
\* (1 - final_tokens/original_tokens) * 100 rounded to one decimal, and it is
\* negative, not clamped to 0, when the compact string has more tokens
C11_CompressionRatio ==
  (Returned /\ metadata.original_tokens > 0) =>
    /\ NearestTenth(metadata.compression_ratio, metadata.original_tokens,
                    metadata.final_tokens)
    /\ metadata.final_tokens > metadata.original_tokens =>
         metadata.compression_ratio < 0

\* C11: a compact string of more tokens than its input has come back with a
\* negative ratio that needed rounding
C11_Witness ==
  /\ pc = "returned"
  /\ metadata.original_tokens > 0
  /\ metadata.final_tokens > metadata.original_tokens
  /\ metadata.compression_ratio < 0
  /\ (metadata.final_tokens * 1000) % metadata.original_tokens # 0

\* C12: get_compression_report computes word_reduction and token_reduction as
\* (1 - compact/original) * 100 with the denominator floored at 1: for an original
\* of zero words or tokens the report is made and the value is (1 - compact) * 100
C12_ReductionFloor ==
  pc = "reported" =>
    /\ NearestTenth(report.word_reduction,
                    IF report.original_words > 1 THEN report.original_words ELSE 1,
                    report.compressed_words)
    /\ NearestTenth(report.token_reduction,
                    IF report.original_tokens > 1 THEN report.original_tokens ELSE 1,
                    report.compressed_tokens)
    /\ report.original_words = 0 =>
         report.word_reduction = (1 - report.compressed_words) * 1000
    /\ report.original_tokens = 0 =>
         report.token_reduction = (1 - report.compressed_tokens) * 1000

\* C12: the report of an original of no word and no token has been made, its
\* compact string being of 3 tokens
C12_Witness ==
  /\ pc = "reported"
  /\ report.original_words = 0
  /\ report.original_tokens = 0
  /\ report.compressed_tokens = 3
  /\ report.token_reduction = 0 - 2000
  /\ report.word_reduction = 0

\* s ends with one of ',', ';', ':'
EndsWithPunct(s) == s # "" /\ CharAt(s, Len(s)) \in {",", ";", ":"}

\* C20: the text the phrase-compression pass returns never ends with a run of
\* ',', ';' or ':' characters
C20_NoTrailingPunct == pc = "act" => ~EndsWithPunct(processed)

\* the five operator prefixes of translate_from_lzip
Prefixes == {"ACT:", "OBJ:", "LIM:", "CTX:", "OUT:"}

\* prefix stands at position i of s, and a word character follows it
TaggedAt(s, prefix, i) ==
  /\ i + Len(prefix) - 1 <= Len(s)
  /\ SubSeq(s, i, i + Len(prefix) - 1) = prefix
  /\ IsWordAt(s, i + Len(prefix))

\* the first position from i on that holds no word character
WordEnd(s, i) ==
  CHOOSE j \in i..(Len(s) + 1) :
    /\ ~IsWordAt(s, j)
    /\ \A h \in i..(j - 1) : IsWordAt(s, h)

\* one pass over s from position i, left to right: where prefix stands (before a
\* word character, when word is required) it is replaced by expansion and the word
\* is kept; every other character is kept in place
RECURSIVE Pass(_, _, _, _, _)
Pass(prefix, expansion, word, s, i) ==
  IF i > Len(s) THEN ""
  ELSE IF word /\ TaggedAt(s, prefix, i)
  THEN expansion \o SubSeq(s, i + Len(prefix), WordEnd(s, i + Len(prefix)) - 1)
       \o Pass(prefix, expansion, word, s, WordEnd(s, i + Len(prefix)))
  ELSE IF ~word /\ i + Len(prefix) - 1 <= Len(s) /\ SubSeq(s, i, i + Len(prefix) - 1) = prefix
  THEN expansion \o Pass(prefix, expansion, word, s, i + Len(prefix))
  ELSE CharAt(s, i) \o Pass(prefix, expansion, word, s, i + 1)

\* the eight passes: what is replaced, by what, and whether a word must follow
pass_table == <<
  <<"ACT:", "Act as ", TRUE>>, <<"OBJ:", "Objective: ", TRUE>>,
  <<"LIM:", "Limit: ", TRUE>>, <<"CTX:", "Context: ", TRUE>>,
  <<"OUT:", "Output format: ", TRUE>>, <<"=>", "leading to", FALSE>>,
  <<"|", "and then", FALSE>>, <<"@", "at ", TRUE>>
>>

\* the passes k, k+1, ... in turn
RECURSIVE PassesFrom(_, _)
PassesFrom(s, k) ==
  IF k > Len(pass_table) \/ s = "" THEN s
  ELSE PassesFrom(Pass(pass_table[k][1], pass_table[k][2], pass_table[k][3], s, 1), k + 1)

Passes(s) == PassesFrom(s, 1)

\* C13 as stated: translate_from_lzip replaces every occurrence of ACT:w, OBJ:w,
\* LIM:w, CTX:w and OUT:w, so that none is left in the text it returns
C13_EveryOccurrence ==
  pc = "from_lzip_returned" =>
    \A prefix \in Prefixes : \A i \in 1..Len(english) : ~TaggedAt(english, prefix, i)

\* C13, amended: each of the eight substitutions, applied in turn in the order ACT,
\* OBJ, LIM, CTX, OUT, '=>', '|', '@', replaces the occurrences found in one pass
\* from left to right (an occurrence that overlaps an earlier one of the same pass
\* is not replaced) and leaves every other character in place; in particular
\* 'ACT:Dev OBJ:Fix_Bug' becomes 'Act as Dev Objective: Fix_Bug'
C13_PassesInTurn ==
  pc = "from_lzip_returned" =>
    /\ english = Passes(lzip_prompt)
    /\ lzip_prompt = "ACT:Dev OBJ:Fix_Bug" => english = "Act as Dev Objective: Fix_Bug"

\* C13: the text of the example has been translated
C13_Witness ==
  /\ pc = "from_lzip_returned"
  /\ lzip_prompt = "ACT:Dev OBJ:Fix_Bug"
  /\ english = "Act as Dev Objective: Fix_Bug"

(***************************************************************************)
(* Properties of the adapter                                               *)
(***************************************************************************)
Responded(action) ==
  /\ pc = "responded"
  /\ request.action.t = "str"
  /\ Lower(request.action.v) = action

\* the compact string that a single forward translation of prompt returns
Single(prompt) ==
  process_request(Request(Str("translate_to_lzip"), prompt, Absent, <<>>, TRUE, FALSE),
                  kwarg).lzip_prompt

\* the sum of len(t) // 4 over the texts
RECURSIVE SumTokens(_)
SumTokens(texts) ==
  IF texts = <<>> THEN 0 ELSE Len(Head(texts)) \div 4 + SumTokens(Tail(texts))

\* C14: when the batch operation returns its totals, total_compressed_tokens is the
\* sum over the prompts of len(c) // 4, c being the compact string that a single
\* forward translation of the prompt returns, and total_original_tokens is the sum
\* of len(prompt) // 4
C14_BatchTotals ==
  (Responded("batch_translate") /\ request.to_lzip /\ response.status = "success") =>
    /\ response.aggregate_compression.present
    /\ response.aggregate_compression.total_compressed_tokens =
         SumTokens([k \in 1..Len(request.prompts) |-> Single(request.prompts[k])])
    /\ response.aggregate_compression.total_original_tokens =
         SumTokens([k \in 1..Len(request.prompts) |-> request.prompts[k].v])

\* a batch of three different prompts has returned: 4 + 2 + 6 tokens have become
\* 2 + 2 + 1
C14_Witness ==
  /\ Responded("batch_translate")
  /\ request.to_lzip
  /\ request.prompts = <<Str("write parser to "), Str("return json"),
                         Str("Please no bug, xxxxxxxxx")>>
  /\ response.status = "success"
  /\ response.aggregate_compression.total_original_tokens = 12
  /\ response.aggregate_compression.total_compressed_tokens = 5

\* C16 as stated: process_request with an action that is none of the six action
\* names returns an error record listing the six actions, and translates nothing
C16_NoneOfTheSix ==
  (/\ pc = "responded"
   /\ request.action.t = "str"
   /\ \A k \in 1..Len(available_actions) : request.action.v # available_actions[k]) =>
    /\ ~response.raised
    /\ response.status = "error"
    /\ response.available_actions = available_actions
    /\ response.translations = 0

\* C16: process_request with an action (the empty string when the request has none)
\* whose lower-cased form is none of the six action names returns an error record
\* that names the lower-cased action and lists exactly the six actions, and makes no
\* call of the translator
C16_UnknownAction ==
  (/\ pc = "responded"
   /\ request.action.t # "None"
   /\ \A k \in 1..Len(available_actions) :
        Lower(Get(request.action, Str("")).v) # available_actions[k]) =>
    /\ ~response.raised
    /\ response.status = "error"
    /\ response.message = "Unknown action: " \o Lower(Get(request.action, Str("")).v)
    /\ response.available_actions =
         <<"translate_to_lzip", "translate_from_lzip", "batch_translate",
           "get_dictionary", "get_templates", "get_version">>
    /\ response.translations = 0
    /\ response.lzip_prompt = ""
    /\ response.results = <<>>

\* the request of an unknown action that carries a prompt has been answered
C16_Witness ==
  /\ pc = "responded"
  /\ request.action = Str("compress")
  /\ request.prompt = Str("write parser to ")
  /\ response.status = "error"
  /\ response.message = "Unknown action: compress"
  /\ Len(response.available_actions) = 6
  /\ response.translations = 0

\* C17: process_request never raises to its caller: whatever the request, it returns
\* a record whose status is 'success' or 'error'
C17_NeverRaisesToCaller ==
  pc = "responded" => (~response.raised /\ response.status \in {"success", "error"})

(***************************************************************************)
(* Properties of a sequence of calls on one translator                     *)
(***************************************************************************)
\* what the first call of a new translator returns for these arguments
Fresh(op, args) ==
  IF op = "translate_to_lzip" THEN translate_to_lzip(args[1], kwarg)
  ELSE IF op = "translate_from_lzip" THEN translate_from_lzip(args[1])
  ELSE get_compression_report(args[1], args[2])

WholeWord(w, s) ==
  \E i \in 1..(Len(s) - Len(w) + 1) :
    /\ SubSeq(s, i, i + Len(w) - 1) = w
    /\ ~IsWordAt(s, i - 1)
    /\ ~IsWordAt(s, i + Len(w))

HedgeWords ==
  {"please", "you should", "could you", "really", "very", "actually", "just", "basically"}

\* C18: after the normalization and phrase-compression pass none of the politeness
\* and hedge words remains as a whole-word occurrence in the text
C18_NoHedgeWords ==
  pc = "compressed" => \A w \in HedgeWords : ~WholeWord(w, processed)

\* the non-overlapping matches of p in s from position i on, left to right
RECURSIVE MatchesFrom(_, _, _)
RECURSIVE MatchesAfter(_, _, _)

MatchesAfter(p, s, m) == <<m>> \o MatchesFrom(p, s, m.e)

MatchesFrom(p, s, i) ==
  IF \A j \in i..(Len(s) + 1) : ~MatchAt(p, s, j).ok THEN <<>>
  ELSE MatchesAfter(p, s, MatchAt(p, s, Min({j \in i..(Len(s) + 1) : MatchAt(p, s, j).ok})))

\* s without the characters of its matches ms[1], ..., ms[n]
Without(s, ms, n) ==
  LET KeptAt(t, j) ==
        IF \E k \in 1..n : ms[k].s <= j /\ j < ms[k].e THEN "" ELSE CharAt(t, j)
  IN MapRange(KeptAt, s, 1, Len(s))

\* the pass of a filler with matches ms has made after of text: the first
\* FillerCount matches are deleted, and the text from the next match on is left
Capped(text, after, ms) ==
  /\ Len(ms) <= FillerCount => after = Without(text, ms, Len(ms))
  /\ Len(ms) > FillerCount =>
       /\ after = Without(text, ms, FillerCount)
       /\ Len(after) >= Len(text) - ms[FillerCount + 1].s + 1
       /\ From(after, Len(after) - (Len(text) - ms[FillerCount + 1].s))
            = From(text, ms[FillerCount + 1].s)

FillerIndex == CHOOSE k \in 1..Len(fillers) : pc = FillerPc[k]

\* C19: the pass of each of the five filler patterns deletes the first 5 matches of
\* the pattern, taken left to right, and no other character; a sixth and later match
\* is left in the text
C19_FillerCap ==
  [][(pc \in {FillerPc[k] : k \in 1..Len(fillers)} /\ pc' # pc) =>
       Capped(processed, processed', MatchesFrom(fillers[FillerIndex], processed, 1))]_vars

\* the pass of the first filler has deleted five of seven 'may' and left two
C19_Witness ==
  /\ pc = "filler2"
  /\ english_prompt = "may may may may may may may "
  /\ processed = "     may may"

(***************************************************************************)
(* The values of the operator tokens: translate_to_lzip on texts made of a *)
(* verb of one category, a phrase and what follows the phrase              *)
(***************************************************************************)
\* the length of the longest word of these texts: it exceeds every slice
MaxWord == 45

LongWord == Repeat("q", MaxWord)

\* one verb of each pattern of the four categories
ValueVerbs == {"act as ", "expert ", "Write ", "goal is to write to ", "without ",
               "return "}

ValuePhrases == {"x", "a senior developer", "an expert teacher", "data wizard",
                 "parser the", "big fat file", "json table", LongWord}

ValueStops == {"", ", ok", " and ok"}

\* texts in which a category sees what an earlier category has left
ValueMixed == {"Design systems with senior engineers quickly and",
               "act as data wizard, write parser to ",
               "Write code", "return  big   file; only the best, "}

ValueTexts == {v \o p \o s : v \in ValueVerbs, p \in ValuePhrases, s \in ValueStops}
                \cup ValueMixed

\* translate_to_lzip(english_prompt) is called with one of these texts: lines 129-132
CallValue ==
  /\ pc = "idle"
  /\ \E text \in ValueTexts :
       /\ english_prompt' = text
       /\ metadata' = [NoMetadata EXCEPT
                         !.original_length = WordCount(english_prompt'),
                         !.original_tokens = TokenEstimate(english_prompt')]
  /\ processed' = ""
  /\ remaining' = ""
  /\ origin' = <<>>
  /\ operators' = <<>>
  /\ final_lzip' = ""
  /\ pc' = "preprocess"
  /\ UNCHANGED <<kwarg, report>>
  /\ UNCHANGED outside

ValueNext ==
  \/ CallValue
  \/ Preprocess
  \/ CompressPhrases
  \/ ExtractAct
  \/ ExtractObj
  \/ ExtractLim
  \/ ExtractOut
  \/ ExtractKeywords
  \/ Build
  \/ Return

\* the calls of translate_to_lzip on these texts
ValueSpec == Init /\ [][ValueNext]_vars

\* the tokens emitted so far by the patterns of category cat
TokensOf(cat) == {k \in 1..Len(operators) : operators[k].cat = cat}

\* the value of a token: what follows the mnemonic and its colon
TokenValue(tok) == From(tok.text, Len(tok.cat) + 2)

\* the greatest length of a value of category cat
MaxOf(cat) == IF cat = "OBJ" THEN ObjectiveMax ELSE RoleMax

\* C21: every operator token emitted by a dedicated pattern has a value of 2 to 40
\* characters (ACT, LIM, OUT) or of 2 to 50 characters (OBJ), whatever the input
C21_ValueLengths ==
  \A k \in 1..Len(operators) :
    operators[k].cat \in {"ACT", "OBJ", "LIM", "OUT"}
      => /\ Len(TokenValue(operators[k])) >= 2
         /\ Len(TokenValue(operators[k])) <= MaxOf(operators[k].cat)

\* a role of more than 40 letters was captured and its token holds the first 40
C21_Witness ==
  /\ pc = "returned"
  /\ Contains(processed, "expert " \o LongWord)
  /\ \E k \in TokensOf("ACT") : Len(TokenValue(operators[k])) = RoleMax

\* the text pattern k of a category captures in the working text, stripped and cut
\* to its first max characters; "" when the pattern does not match
CapturedText(patterns, k, text, max) ==
  LET m == Search(patterns[k][1], text)
  IN IF m.ok THEN Prefix(Strip(GroupText(text, m, patterns[k][2])), max) ELSE ""

\* the texts a category may have made its token of: the capture of its first pattern
\* whose capture has more than one character
CapturedBy(patterns, text, max) ==
  {CapturedText(patterns, k, text, max) :
     k \in {i \in 1..Len(patterns) :
              /\ Len(CapturedText(patterns, i, text, max)) > 1
              /\ \A j \in 1..(i - 1) : Len(CapturedText(patterns, j, text, max)) <= 1}}

\* the keys of a table that are substrings of text
KeysIn(table, text) == {k \in 1..Len(table) : Contains(text, table[k][1])}

\* value is text in title case with an underscore for each space
IsTitleCased(value, text) ==
  /\ Len(value) = Len(text)
  /\ \A i \in 1..Len(text) :
       CharAt(value, i) =
         IF CharAt(text, i) = " " THEN "_"
         ELSE IF i = 1 \/ CharAt(text, i - 1) \notin Alpha THEN UpperChar(CharAt(text, i))
         ELSE CharAt(text, i)

\* value is what the claim makes of the captured role
IsRoleValue(value, role) ==
  IF KeysIn(role_map, role) # {}
  THEN value = role_map[Min(KeysIn(role_map, role))][2]
  ELSE IsTitleCased(value, role)

\* the step of a category that emits a token
Emits(at) == pc = at /\ Len(operators') = Len(operators) + 1

\* C22: the value of an emitted ACT token is the canonical name of the first key of
\* the role table, in table order, that is a substring of the captured role text;
\* when no key is, it is the captured text in title case with an underscore for
\* each space
C22_RoleValue ==
  [][Emits("act") =>
       \E role \in CapturedBy(act_patterns, remaining, RoleMax) :
         IsRoleValue(TokenValue(operators'[Len(operators')]), role)]_vars

\* a role that holds two keys of the table has got the name of the first one
C22_Witness ==
  /\ pc = "obj"
  /\ Contains(processed, "expert teacher")
  /\ \E k \in TokensOf("ACT") : operators[k].text = "ACT:Expert"

\* the whole words that the term-shortening step removes
SmallWordSet == {"a", "an", "the", "for", "to", "and", "or"}

IsLargeWord(w) == w \notin SmallWordSet

\* the words of text that are none of those, joined by underscores
JoinedWords(text) == Join(SelectSeq(Split(text), IsLargeWord), "_")

\* the words of a value: its parts between underscores
UnderscoresToSpaces(s) ==
  [i \in 1..Len(s) |-> IF CharAt(s, i) = "_" THEN " " ELSE CharAt(s, i)]

ValueWords(value) == Split(Join(UnderscoresToSpaces(value), ""))

\* the verbs of the objective patterns
ObjectiveVerbs == {"write", "create", "generate", "produce", "develop", "design",
                   "objective", "goal"}

HasObjectiveVerb(text) == \E v \in ObjectiveVerbs : Contains(Lower(text), v)

\* C23: the value of an emitted OBJ token is the captured objective phrase without
\* the whole words a, an, the, for, to, and, or, the remaining words joined by
\* underscores; it holds no whitespace and none of those words; and for an input
\* with an objective verb and no role match the compact string begins with OBJ:
C23_ObjValue ==
  [][/\ Emits("obj") =>
          /\ \E k \in 1..Len(obj_patterns) :
               TokenValue(operators'[Len(operators')])
                 = JoinedWords(CapturedText(obj_patterns, k, remaining, ObjectiveMax))
          /\ \A i \in 1..Len(TokenValue(operators'[Len(operators')])) :
               CharAt(TokenValue(operators'[Len(operators')]), i) \notin WhiteSpace
          /\ \A i \in 1..Len(ValueWords(TokenValue(operators'[Len(operators')]))) :
               IsLargeWord(ValueWords(TokenValue(operators'[Len(operators')]))[i])
     /\ (pc' = "returned" /\ HasObjectiveVerb(english_prompt) /\ TokensOf("ACT") = {})
          => Upto(final_lzip', 4) = "OBJ:"]_vars

\* value is what the claim makes of the captured output format
IsOutputValue(value, output) ==
  IF KeysIn(output_map, output) # {}
  THEN value = output_map[Min(KeysIn(output_map, output))][2]
  ELSE /\ value = Join(Split(output), "+")
       /\ \A i \in 1..Len(value) : CharAt(value, i) \notin WhiteSpace

\* C24: the value of an OUT token emitted by the output-format pattern is the
\* canonical name of the first key of the output table, in table order, that is a
\* substring of the captured value; when no key is, it is the captured words joined
\* by '+', without whitespace
C24_OutputValue ==
  [][Emits("out") =>
       \E output \in CapturedBy(out_patterns, remaining, OutputMax) :
         IsOutputValue(TokenValue(operators'[Len(operators')]), output)]_vars

\* a value that holds two keys of the table has got the name of the first one
C24_Witness ==
  /\ pc = "kw"
  /\ Contains(processed, "return json table")
  /\ \E k \in TokensOf("OUT") : operators[k].text = "OUT:JSON"

(***************************************************************************)
(* The results of a batch                                                  *)
(***************************************************************************)
\* the text that a single reverse translation of prompt returns
SingleBack(prompt) ==
  process_request(Request(Str("translate_from_lzip"), Absent, prompt, <<>>, TRUE, FALSE),
                  kwarg).english_prompt

\* C25: when the batch operation returns, count is the number of prompts, the
\* results are in the order of the prompts, results[i].translated is what a single
\* forward (with to_lzip false: reverse) translation of prompts[i] returns, whatever
\* the other prompts of the batch, and with to_lzip false aggregate_compression is
\* None
C25_BatchResults ==
  (Responded("batch_translate") /\ response.status = "success") =>
    /\ response.count = Len(request.prompts)
    /\ Len(response.results) = Len(request.prompts)
    /\ \A i \in 1..Len(request.prompts) :
         /\ response.results[i].original = request.prompts[i].v
         /\ response.results[i].translated =
              IF request.to_lzip THEN Single(request.prompts[i])
              ELSE SingleBack(request.prompts[i])
    /\ ~request.to_lzip => ~response.aggregate_compression.present

\* a batch of three different compact texts has been translated back, in order
C25_Witness ==
  /\ Responded("batch_translate")
  /\ ~request.to_lzip
  /\ request.prompts = <<Str("ACT:Dev OBJ:Fix_Bug"), Str("json"), Str("return json")>>
  /\ response.status = "success"
  /\ response.count = 3
  /\ response.results[1].translated = "Act as Dev Objective: Fix_Bug"
  /\ response.results[3].translated = "return json"
  /\ ~response.aggregate_compression.present

(***************************************************************************)
(* The stdio server: LZIPMCPStdioServer                                    *)
(***************************************************************************)
\* the values json.loads makes of the lines: a dict has a field for each key the
\* server reads (Absent: the dict has no such key)
List == [t |-> "list", v |-> ""]
RequestOf(method, params) == [t |-> "dict", method |-> method, params |-> params]
ParamsOf(tool_name, arguments) == [t |-> "dict", name |-> tool_name, arguments |-> arguments]
ArgumentsOf(prompt, lzip) == [t |-> "dict", prompt |-> prompt, lzip |-> lzip]

\* the default {} of params.get and request.get
EmptyParams == ParamsOf(Absent, Absent)
EmptyArguments == ArgumentsOf(Absent, Absent)

\* d.get(key, default) for the value found under key
Field(value, default) == IF value.t = "absent" THEN default ELSE value

\* type(value).__name__
TypeName(value) == IF value.t = "None" THEN "NoneType" ELSE value.t

\* the AttributeError of value.get for a value that is no dict
NoGet(value) == "'" \o TypeName(value) \o "' object has no attribute 'get'"

\* the ValueError messages of a tuple assignment with two targets
TooMany == "too many values to unpack (expected 2)"
NotEnough(n) == "not enough values to unpack (expected 2, got " \o ToString(n) \o ")"

\* the JSONDecodeError message of a line that holds no JSON value at its start
NoJson == "Expecting value: line 1 column 1 (char 0)"

\* the lines of the model that are JSON texts, each with the value json.loads
\* makes of it; every other line of the model is no JSON text
JsonTexts == <<
  <<"{\"method\":\"tools/list\"}",
    RequestOf(Str("tools/list"), Absent)>>,
  <<"{\"method\":\"initialize\"}",
    RequestOf(Str("initialize"), Absent)>>,
  <<"{\"method\":\"tools/call\",\"params\":{\"name\":\"expand_lzip\",\"arguments\":{\"lzip\":\"ACT:Dev OBJ:Fix_Bug\"}}}",
    RequestOf(Str("tools/call"), ParamsOf(Str("expand_lzip"), ArgumentsOf(Absent, Str("ACT:Dev OBJ:Fix_Bug"))))>>,
  <<"{\"method\":\"tools/call\",\"params\":{\"name\":\"expand_lzip\",\"arguments\":{\"lzip\":\"ab\"}}}",
    RequestOf(Str("tools/call"), ParamsOf(Str("expand_lzip"), ArgumentsOf(Absent, Str("ab"))))>>,
  <<"{\"method\":\"tools/call\",\"params\":{\"name\":\"expand_lzip\",\"arguments\":{\"lzip\":\"a\"}}}",
    RequestOf(Str("tools/call"), ParamsOf(Str("expand_lzip"), ArgumentsOf(Absent, Str("a"))))>>,
  <<"{\"method\":\"tools/call\",\"params\":{\"name\":\"expand_lzip\",\"arguments\":{}}}",
    RequestOf(Str("tools/call"), ParamsOf(Str("expand_lzip"), ArgumentsOf(Absent, Absent)))>>,
  <<"{\"method\":\"tools/call\",\"params\":{\"name\":\"expand_lzip\",\"arguments\":{\"lzip\":null}}}",
    RequestOf(Str("tools/call"), ParamsOf(Str("expand_lzip"), ArgumentsOf(Absent, None)))>>,
  <<"{\"method\":\"tools/call\",\"params\":{\"name\":\"compress_prompt\",\"arguments\":{\"prompt\":\"write parser to \"}}}",
    RequestOf(Str("tools/call"), ParamsOf(Str("compress_prompt"), ArgumentsOf(Str("write parser to "), Absent)))>>,
  <<"{\"method\":\"tools/call\",\"params\":{\"name\":\"compress_prompt\",\"arguments\":{\"prompt\":\"json\"}}}",
    RequestOf(Str("tools/call"), ParamsOf(Str("compress_prompt"), ArgumentsOf(Str("json"), Absent)))>>,
  <<"{\"method\":\"tools/call\",\"params\":{\"name\":\"compress_prompt\",\"arguments\":{\"prompt\":\"\"}}}",
    RequestOf(Str("tools/call"), ParamsOf(Str("compress_prompt"), ArgumentsOf(Str(""), Absent)))>>,
  <<"{\"method\":\"tools/call\",\"params\":{\"name\":\"compress_prompt\",\"arguments\":{\"prompt\":null}}}",
    RequestOf(Str("tools/call"), ParamsOf(Str("compress_prompt"), ArgumentsOf(None, Absent)))>>,
  <<"{\"method\":\"tools/call\",\"params\":{\"name\":\"compress_prompt\",\"arguments\":null}}",
    RequestOf(Str("tools/call"), ParamsOf(Str("compress_prompt"), None))>>,
  <<"{\"method\":\"tools/call\",\"params\":{\"name\":\"other\",\"arguments\":null}}",
    RequestOf(Str("tools/call"), ParamsOf(Str("other"), None))>>,
  <<"{\"method\":\"tools/call\",\"params\":null}",
    RequestOf(Str("tools/call"), None)>>,
  <<"{\"method\":\"tools/call\"}",
    RequestOf(Str("tools/call"), Absent)>>,
  <<"{\"method\":null}",
    RequestOf(None, Absent)>>,
  <<"{\"method\":\"nope\"}",
    RequestOf(Str("nope"), Absent)>>,
  <<"{}",
    RequestOf(Absent, Absent)>>,
  <<"[]",
    List>>,
  <<"null",
    None>>
>>

\* json.loads(text)
json_loads(text) ==
  IF \E k \in 1..Len(JsonTexts) : JsonTexts[k][1] = text
  THEN [raised |-> FALSE, message |-> "",
        value |-> JsonTexts[CHOOSE k \in 1..Len(JsonTexts) : JsonTexts[k][1] = text][2]]
  ELSE [raised |-> TRUE, message |-> NoJson, value |-> None]

\* what handle_request does: it returns a response of some kind, or raises
Returns(kind, text) == [raised |-> FALSE, message |-> "", kind |-> kind, text |-> text]
Throws(msg) == [raised |-> TRUE, message |-> msg, kind |-> "", text |-> ""]

\* str(value) of a string or None
StrOf(value) == IF value.t = "str" THEN value.v ELSE "None"

\* line 122
UnknownMethod(method) == Returns("error", "Unknown method: " \o StrOf(method))

\* a float with one decimal, given in tenths, as str() writes it
FormatTenths(n) ==
  IF n < 0 THEN "-" \o ToString((0 - n) \div 10) \o "." \o ToString((0 - n) % 10)
  ELSE ToString(n \div 10) \o "." \o ToString(n % 10)

\* lines 80-95: the text made of the translation r
CompressedText(lzip, md) ==
  "L-ZIP Compressed Prompt:\n" \o lzip \o "\n\n"
  \o "Original: " \o ToString(md.original_length) \o " words ("
  \o ToString(md.original_tokens) \o " tokens)\n"
  \o "Compressed: " \o ToString(md.final_length) \o " words ("
  \o ToString(md.final_tokens) \o " tokens)\n"
  \o "Tokens saved: " \o ToString(Max({0, md.original_tokens - md.final_tokens}))
  \o " (" \o FormatTenths(md.compression_ratio) \o "% compression)"

CompressPrompt(r) ==
  IF r.raised THEN Throws(r.message)
  ELSE Returns("content", CompressedText(r.lzip_prompt, r.metadata))

\* ExpandedOf with a fault: the text holds the whole result of translate_from_lzip
ExpandedWhole(result) == Returns("content", "Expanded Prompt:\n" \o result)

\* line 99: expanded, _ = result -- the string result is taken apart like a tuple,
\* which succeeds for a string of two characters only; lines 101-108
ExpandedOf(result) ==
  IF Len(result) > 2 THEN Throws(TooMany)
  ELSE IF Len(result) < 2 THEN Throws(NotEnough(Len(result)))
  ELSE Returns("content", "Expanded Prompt:\n" \o CharAt(result, 1))

\* lines 98-99
ExpandLzip(lzip) ==
  IF lzip.t # "str" THEN Throws(NoString) ELSE ExpandedOf(translate_from_lzip(lzip.v))

\* lines 76-108: a tool that is neither of the two falls through to line 122
CallTool(tool_name, arguments, kw) ==
  IF tool_name.t = "str" /\ tool_name.v = "compress_prompt"
  THEN IF arguments.t # "dict" THEN Throws(NoGet(arguments))
       ELSE CompressPrompt(ToLzip(Field(arguments.prompt, Str("")), kw))
  ELSE IF tool_name.t = "str" /\ tool_name.v = "expand_lzip"
  THEN IF arguments.t # "dict" THEN Throws(NoGet(arguments))
       ELSE ExpandLzip(Field(arguments.lzip, Str("")))
  ELSE UnknownMethod(Str("tools/call"))

\* lines 73-74
ToolsCall(params, kw) ==
  IF params.t # "dict" THEN Throws(NoGet(params))
  ELSE CallTool(Field(params.name, Str("")), Field(params.arguments, EmptyArguments), kw)

\* lines 38-122
HandleMethod(method, params, kw) ==
  IF method.t = "str" /\ method.v = "tools/list" THEN Returns("tools", "")
  ELSE IF method.t = "str" /\ method.v = "tools/call" THEN ToolsCall(params, kw)
  ELSE IF method.t = "str" /\ method.v = "initialize" THEN Returns("initialize", "")
  ELSE UnknownMethod(method)

\* handle_request(request): lines 35-36 raise for a request that is no dict
handle_request(request0, kw) ==
  IF request0.t # "dict" THEN Throws(NoGet(request0))
  ELSE HandleMethod(Field(request0.method, Str("")), Field(request0.params, EmptyParams),
                    kw)

\* json.dumps of a string made of ASCII characters
EscapeAt(s, i) ==
  IF CharAt(s, i) = "\"" THEN "\\\""
  ELSE IF CharAt(s, i) = "\\" THEN "\\\\"
  ELSE IF CharAt(s, i) = "\n" THEN "\\n"
  ELSE CharAt(s, i)

DumpString(s) == "\"" \o MapRange(EscapeAt, s, 1, Len(s)) \o "\""

\* json.dumps of the responses of lines 39-70 and 111-120
ToolsListJson ==
  "{\"tools\": [{\"name\": \"compress_prompt\", \"description\": \"Compress English prompt to L-ZIP (saves 50-70% tokens)\", \"inputSchema\": {\"type\": \"object\", \"properties\": {\"prompt\": {\"type\": \"string\", \"description\": \"English prompt to compress\"}}, \"required\": [\"prompt\"]}}, {\"name\": \"expand_lzip\", \"description\": \"Expand L-ZIP back to English\", \"inputSchema\": {\"type\": \"object\", \"properties\": {\"lzip\": {\"type\": \"string\", \"description\": \"L-ZIP prompt to expand\"}}, \"required\": [\"lzip\"]}}]}"

InitializeJson ==
  "{\"protocolVersion\": \"2024-11-05\", \"capabilities\": {\"tools\": {}}, \"serverInfo\": {\"name\": \"l-zip\", \"version\": \"1.0.0\"}}"

\* json.dumps of {"error": message}
ErrorJson(message) == "{\"error\": " \o DumpString(message) \o "}"

\* json.dumps(response)
json_dumps(response0) ==
  CASE response0.kind = "tools" -> ToolsListJson
    [] response0.kind = "initialize" -> InitializeJson
    [] response0.kind = "content" ->
         "{\"content\": [{\"type\": \"text\", \"text\": " \o DumpString(response0.text)
         \o "}]}"
    [] response0.kind = "error" -> ErrorJson(response0.text)

\* lines 129-133 for the outcome r of handle_request: what is printed, and whether
\* the except clause printed it
Answered(r) ==
  IF r.raised THEN [raised |-> TRUE, text |-> ErrorJson(r.message)]
  ELSE [raised |-> FALSE, text |-> json_dumps(r)]

\* lines 127-133: one turn of the loop for the outcome parsed of json.loads
Parsed(parsed, kw) ==
  IF parsed.raised THEN [raised |-> TRUE, text |-> ErrorJson(parsed.message)]
  ELSE Answered(handle_request(parsed.value, kw))

RunLine(line, kw) == Parsed(json_loads(Strip(line)), kw)

\* Printed with a fault: the except clause prints nothing
PrintedUnlessRaised(out, r) == IF r.raised THEN out ELSE Append(out, r.text)

\* print(..., flush=True) at lines 130 and 133
Printed(out, r) == Append(out, r.text)

\* the input of the stdio server: at most MaxLines lines
MaxLines == 2

StdioLines == {JsonTexts[k][1] : k \in 1..Len(JsonTexts)} \cup {"", "not json"}

\* for line in sys.stdin: one line is read and answered
StdioRead ==
  /\ pc = "idle"
  /\ Len(received) < MaxLines
  /\ \E line \in StdioLines :
       /\ received' = Append(received, line)
       /\ stdout' = Printed(stdout, RunLine(line, kwarg))
  /\ UNCHANGED <<pc, kwarg, locals, lzip_prompt, english, request, response, config, log,
                 running, keyboard, lines, consecutive_empty, cmd, screen, noui>>

\* the input ends: run returns
StdioEnd ==
  /\ pc = "idle"
  /\ pc' = "closed"
  /\ UNCHANGED <<kwarg, locals, outside>>

StdioNext ==
  \/ StdioRead
  \/ StdioEnd

\* the stdio server on its input
StdioSpec == Init /\ [][StdioNext]_vars

\* the line holds no line break
OneLine(s) == \A i \in 1..Len(s) : CharAt(s, i) # "\n"

\* the line is a JSON object whose first key is 'error'
IsErrorLine(s) == Upto(s, 10) = "{\"error\": " /\ CharAt(s, Len(s)) = "}"

\* the line is no JSON text, or no JSON object, or handling it raises
IsBadLine(line) ==
  \/ json_loads(Strip(line)).raised
  \/ json_loads(Strip(line)).value.t # "dict"
  \/ handle_request(json_loads(Strip(line)).value, kwarg).raised

IsExpandCall(line) ==
  /\ ~json_loads(Strip(line)).raised
  /\ json_loads(Strip(line)).value.t = "dict"
  /\ json_loads(Strip(line)).value.method = Str("tools/call")
  /\ json_loads(Strip(line)).value.params.t = "dict"
  /\ json_loads(Strip(line)).value.params.name = Str("expand_lzip")
  /\ json_loads(Strip(line)).value.params.arguments.t = "dict"
  /\ json_loads(Strip(line)).value.params.arguments.lzip.t = "str"

LzipOf(line) == json_loads(Strip(line)).value.params.arguments.lzip.v

\* C27: a tools/call of expand_lzip with argument lzip returns a content record
\* whose text is 'Expanded Prompt:' followed by the full result of
\* translate_from_lzip(lzip)
C27_ExpandedText ==
  \A i \in 1..Len(received) :
    IsExpandCall(received[i]) =>
      /\ i <= Len(stdout)
      /\ stdout[i] = json_dumps(Returns("content", "Expanded Prompt:\n"
                                          \o translate_from_lzip(LzipOf(received[i]))))

(***************************************************************************)
(* The console: LZIPCLI of cli.py and cli_noui.py                          *)
(***************************************************************************)
\* the control characters of the model's alphabet: ord(ch) < 32, neither \n nor \t
ControlChars == {"\f", "\r"}

\* sanitize_text of cli_noui.py
SanitizeAt(s, i) == IF CharAt(s, i) \in ControlChars THEN "" ELSE CharAt(s, i)
sanitize_text(text) == MapRange(SanitizeAt, text, 1, Len(text))

\* line.strip() == ""
IsBlankLine(line) == Strip(line) = ""

\* read_multiline_input with a fault: a non-blank line leaves the counter as it is
CountAfterKept(count, user_input) == IF IsBlankLine(user_input) THEN count + 1 ELSE count

\* consecutive_empty after the line user_input
CountAfter(count, user_input) == IF IsBlankLine(user_input) THEN count + 1 ELSE 0

\* "\n".join(lines).strip()
JoinedLines(ls) == Strip(Join(ls, "\n"))

\* lines[:-2]
DropLastTwo(ls) == SubSeq(ls, 1, Len(ls) - 2)

\* what input() hands to read_multiline_input for the line typed
UserInput(line, sanitizing) == IF sanitizing THEN sanitize_text(line) ELSE line

\* parts[0].lower() of cmd.strip().split(maxsplit=1)
CommandWord(s) ==
  Lower(Upto(s, RunLen(s, 1, {CharAt(s, j) : j \in 1..Len(s)} \ WhiteSpace, -1)))

\* parts[1] if len(parts) > 1 else None ("" stands for None: no part is empty)
CommandArgs(s) ==
  LET n == RunLen(s, 1, {CharAt(s, j) : j \in 1..Len(s)} \ WhiteSpace, -1)
  IN From(s, n + 1 + RunLen(s, n + 1, WhiteSpace, -1))

\* the outcome of a command: the exception it leaves with (raised, "" for none) and the
\* message of the exception, what it has printed (without the logo, the rules of dashes
\* and the note on the clipboard), self.running, and the lines left on the keyboard
Done(printed, keys) ==
  [raised |-> "", message |-> "", printed |-> printed, running |-> TRUE, keyboard |-> keys]

Fails(exception, msg, printed, keys) ==
  [raised |-> exception, message |-> msg, printed |-> printed, running |-> TRUE,
   keyboard |-> keys]

\* input() when the input has ended
EndOfInput(printed) == Fails("EOFError", "EOF when reading a line", printed, <<>>)

\* lines 223-240 of cli.py: the result of handle_translate_to_lzip is printed
CompressShown(r, keys) ==
  IF r.raised THEN Fails("TypeError", r.message, "", keys)
  ELSE Done("TRANSLATION RESULTS\n\nOriginal Prompt:\n" \o r.original_prompt
            \o "\n\nL-ZIP Translation:\n" \o r.lzip_prompt \o "\n", keys)

\* cmd_compress(args): arg is args[0], "" when args is empty
cmd_compress(arg, keys, kw) ==
  IF arg # "" THEN CompressShown(handle_translate_to_lzip(Str(arg), FALSE, kw), keys)
  ELSE IF keys = <<>> THEN EndOfInput("")
  ELSE IF Lower(Head(keys)) = "cancel" THEN Done("", Tail(keys))
  ELSE CompressShown(handle_translate_to_lzip(Str(Head(keys)), FALSE, kw), Tail(keys))

\* lines 257-268 of cli.py
ExpandShown(r, keys) ==
  Done("EXPANSION RESULTS\n\nL-ZIP Prompt:\n" \o r.lzip_prompt
       \o "\n\nEnglish Translation:\n" \o r.english_prompt \o "\n", keys)

\* cmd_expand(args)
cmd_expand(arg, keys) ==
  IF arg # "" THEN ExpandShown(handle_translate_from_lzip(Str(arg)), keys)
  ELSE IF keys = <<>> THEN EndOfInput("")
  ELSE IF Lower(Head(keys)) = "cancel" THEN Done("", Tail(keys))
  ELSE ExpandShown(handle_translate_from_lzip(Str(Head(keys))), Tail(keys))

cmd_dict(keys) == Done("L-ZIP OPERATOR DICTIONARY\n" \o handle_get_dictionary.body \o "\n", keys)

cmd_templates(keys) == Done("L-ZIP TEMPLATES\n" \o handle_get_templates.body \o "\n", keys)

print_help(keys) == Done("\nAvailable Commands:\n", keys)

BatchHeader == "\nBatch Mode - Enter prompts (one per line, empty line to finish):\n"

\* the while loop of cmd_batch: prompts are read until an empty one
RECURSIVE BatchRead(_, _)
BatchRead(prompts, keys) ==
  IF keys = <<>> THEN [eof |-> TRUE, prompts |-> prompts, keyboard |-> keys]
  ELSE IF Strip(Head(keys)) = "" THEN [eof |-> FALSE, prompts |-> prompts, keyboard |-> Tail(keys)]
  ELSE BatchRead(Append(prompts, Str(Strip(Head(keys)))), Tail(keys))

\* the lines "[Prompt i]", "Original:", "L-ZIP:" of the results from the k-th on
RECURSIVE BatchLines(_, _)
BatchLines(results, k) ==
  IF k > Len(results) THEN ""
  ELSE "\n[Prompt " \o ToString(k) \o "]\nOriginal: " \o results[k].original
       \o "\nL-ZIP:    " \o results[k].translated \o "\n" \o BatchLines(results, k + 1)

\* lines 318-335 of cli.py: the result of handle_batch_translate is printed
BatchShown(r, keys) ==
  IF r.raised THEN Fails("TypeError", r.message, BatchHeader, keys)
  ELSE Done(BatchHeader \o "BATCH RESULTS (" \o ToString(r.count) \o " prompts)\n"
            \o BatchLines(r.results, 1), keys)

\* cmd_batch once the prompts are read
BatchOf(b, kw) ==
  IF b.eof THEN EndOfInput(BatchHeader)
  ELSE IF b.prompts = <<>> THEN Done(BatchHeader \o "No prompts entered.\n", b.keyboard)
  ELSE BatchShown(handle_batch_translate(b.prompts, TRUE, kw), b.keyboard)

cmd_batch(keys, kw) == BatchOf(BatchRead(<<>>, keys), kw)

\* demo_prompts of cmd_demo
demo_prompts ==
  <<"Please write a Python script that reads a CSV file, filters for rows where the age is over 30, and saves the results to a new CSV file.",
    "Act as a senior software architect. Review the following code for bugs, security vulnerabilities, performance issues, and suggest refactoring for readability and maintainability.",
    "Create a comprehensive marketing strategy for a SaaS startup with a budget of $50,000 over 6 months, considering current market conditions.",
    "Summarize the key points from this research paper and identify the top 3 limitations.",
    "Design a database schema for an e-commerce application that handles products, users, orders, and reviews with proper relationships.">>

DemoHeader == "INTERACTIVE DEMO\n"

\* for i, prompt in enumerate(demo_prompts, 1): the i-th prompt translated to r, then the
\* following ones
RECURSIVE DemoFrom(_, _, _, _)
DemoStep(i, r, printed, keys, kw) ==
  IF r.raised THEN Fails("TypeError", r.message, printed, keys)
  ELSE IF keys = <<>>
  THEN EndOfInput(printed \o "DEMO " \o ToString(i) \o "\nL-ZIP Translation:\n"
                  \o r.lzip_prompt \o "\n")
  ELSE DemoFrom(i + 1, printed \o "DEMO " \o ToString(i) \o "\nL-ZIP Translation:\n"
                       \o r.lzip_prompt \o "\n", Tail(keys), kw)

DemoFrom(i, printed, keys, kw) ==
  IF i > Len(demo_prompts) THEN Done(printed \o "Demo Complete!\n", keys)
  ELSE DemoStep(i, handle_translate_to_lzip(Str(demo_prompts[i]), FALSE, kw), printed,
                keys, kw)

\* cmd_demo of cli.py
cmd_demo(keys, kw) == DemoFrom(1, DemoHeader, keys, kw)

\* self.server.handle_get_version(): LZIPMCPServer has no such method
NoGetVersion == "'LZIPMCPServer' object has no attribute 'handle_get_version'"

\* cmd_version: the call at its first line raises AttributeError
cmd_version(keys) == Fails("AttributeError", NoGetVersion, "", keys)

\* _exit
Exit(keys) == [Done("\nGoodbye!\n\n", keys) EXCEPT !.running = FALSE]

\* the branches of process_command for the command word and its argument
CommandBranch(command, args, whole, keys, sanitizing, kw) ==
  IF command \in {"compress", "c", "to-lzip"} THEN cmd_compress(args, keys, kw)
  ELSE IF command \in {"expand", "e", "from-lzip"} THEN cmd_expand(args, keys)
  ELSE IF command \in {"dict", "d", "dictionary"} THEN cmd_dict(keys)
  ELSE IF command \in {"templates", "t", "template"} THEN cmd_templates(keys)
  ELSE IF command \in {"batch", "b"} THEN cmd_batch(keys, kw)
  ELSE IF command = "demo" /\ ~sanitizing THEN cmd_demo(keys, kw)
  ELSE IF command \in {"help", "h", "?"} THEN print_help(keys)
  ELSE IF command \in {"version", "v"} THEN cmd_version(keys)
  ELSE IF command \in {"exit", "quit", "q"} THEN Exit(keys)
  ELSE cmd_compress(whole, keys, kw)

\* process_command(cmd) of cli.py (sanitizing FALSE) and of cli_noui.py (TRUE)
process_command(cmd0, keys, sanitizing, kw) ==
  IF Strip(cmd0) = "" THEN Done("", keys)
  ELSE CommandBranch(CommandWord(Strip(cmd0)), CommandArgs(Strip(cmd0)), cmd0, keys,
                sanitizing, kw)

\* what the except clauses of run_interactive print for the outcome o
CaughtBy(o) ==
  IF o.raised = "" THEN o.printed
  ELSE IF o.raised = "EOFError" THEN o.printed \o "\n\nEnd of input reached. Goodbye!\n\n"
  ELSE o.printed \o "\nError: " \o o.message \o "\n\n"

\* self.running after the try statement of run_interactive
RunningAfter(o) == o.raised # "EOFError" /\ o.running

\* what the interpreter prints when run_single_command leaves with an exception
Traceback(o) ==
  IF o.raised = "" THEN o.printed
  ELSE o.printed \o "Traceback (most recent call last):\n" \o o.raised \o ": " \o o.message
       \o "\n"

\* the lines typed at the console, at most MaxTyped of them
MaxTyped == 4
TypedLines == {"", " ", "a", "a\fb"}

RECURSIVE SeqsUpTo(_, _)
SeqsUpTo(S, n) ==
  IF n = 0 THEN {<<>>}
  ELSE SeqsUpTo(S, n - 1) \cup {Append(s, x) : s \in SeqsUpTo(S, n - 1), x \in S}

\* sessions of commands, each submitted with two blank lines
Sessions ==
  {<<"version", "", "">>, <<"V", "", "", "a", "", "">>, <<"version">>,
   <<"exit", "", "", "a">>, <<"q">>, <<"help", "", "", "quit", "", "">>,
   <<"compress", "", "", "Write parser to ">>, <<"c", "", "", "Cancel", "v", "", "">>,
   <<"compress", "", "">>, <<"c act as data wizard", "", "">>,
   <<"Write code", "", "", "exit", "", "">>,
   <<"expand", "", "", "ACT:Dev OBJ:Fix_Bug", "d", "", "">>, <<"e", "", "">>,
   <<"e ACT:Dev", "", "", "t", "", "">>,
   <<"batch", "", "", "Write parser to ", " return json table ", "", "h", "", "">>,
   <<"b", "", "", "", "?", "", "">>, <<"b", "", "", "Write code">>,
   <<"b", "", "", "Write code", "">>,
   <<"demo", "", "">>, <<"demo", "", "", "", "", "", "", "", "exit">>,
   <<"act as data wizard,", "", "write parser to ", "", "">>}

Keyboards == SeqsUpTo(TypedLines, MaxTyped) \cup Sessions

\* the command lines of run_single_command: ' '.join(sys.argv[1:]) or the piped input
SingleCommands ==
  {"version", "v", "help", "exit", "dict", "templates", "compress", "expand ACT:Dev",
   "batch", "demo", "Write parser to ", "Write code"}

SingleKeyboards == {<<>>, <<"a">>, <<"cancel">>, <<"a", "">>}

\* main: the console is started on a terminal, or with an empty piped input, and
\* run_interactive enters its loop
RunInteractive ==
  /\ pc = "idle"
  /\ pc' = "input"
  /\ keyboard' \in Keyboards
  /\ noui' \in BOOLEAN
  /\ running' = TRUE
  /\ lines' = <<>>
  /\ consecutive_empty' = 0
  /\ cmd' = ""
  /\ screen' = NoScreen
  /\ UNCHANGED <<kwarg, locals, lzip_prompt, english, request, response, config, log,
                 received, stdout>>

\* one pass of the while True loop of read_multiline_input: input() returns a line or
\* raises EOFError; when the loop is left the text is returned to run_interactive
Input ==
  /\ pc = "input"
  /\ IF keyboard = <<>>
     THEN /\ cmd' = JoinedLines(lines)
          /\ pc' = "command"
          /\ UNCHANGED <<keyboard, lines, consecutive_empty>>
     ELSE /\ keyboard' = Tail(keyboard)
          /\ consecutive_empty' = CountAfter(consecutive_empty, UserInput(Head(keyboard), noui))
          /\ IF consecutive_empty' >= 2
             THEN /\ lines' = DropLastTwo(Append(lines, UserInput(Head(keyboard), noui)))
                  /\ cmd' = JoinedLines(lines')
                  /\ pc' = "command"
             ELSE /\ lines' = Append(lines, UserInput(Head(keyboard), noui))
                  /\ UNCHANGED <<cmd, pc>>
  /\ UNCHANGED <<kwarg, locals, lzip_prompt, english, request, response, config, log,
                 received, stdout, running, screen, noui>>

\* the rest of the try statement of run_interactive for the outcome o of the command,
\* and the test of the while loop
AfterCommand(o) ==
  /\ screen' = CaughtBy(o)
  /\ running' = RunningAfter(o)
  /\ keyboard' = o.keyboard
  /\ pc' = IF RunningAfter(o) THEN "input" ELSE "exited"

\* if cmd: is false, no command is run: the while loop tests self.running
SkipCommand ==
  /\ pc = "command"
  /\ cmd = ""
  /\ pc' = IF running THEN "input" ELSE "exited"
  /\ lines' = <<>>
  /\ consecutive_empty' = 0
  /\ UNCHANGED <<kwarg, locals, lzip_prompt, english, request, response, config, log,
                 received, stdout, running, keyboard, cmd, screen, noui>>

\* if cmd: self.process_command(cmd), under the except clauses of run_interactive
ProcessCommand ==
  /\ pc = "command"
  /\ cmd # ""
  /\ AfterCommand(process_command(cmd, keyboard, noui, kwarg))
  /\ lines' = <<>>
  /\ consecutive_empty' = 0
  /\ UNCHANGED <<kwarg, locals, lzip_prompt, english, request, response, config, log,
                 received, stdout, cmd, noui>>

\* main with arguments or with a piped input: run_single_command(cmd), then the
\* program ends
RunSingleCommand ==
  /\ pc = "idle"
  /\ pc' = "single"
  /\ \E line \in SingleCommands, keys \in SingleKeyboards :
       /\ cmd' = line
       /\ keyboard' = keys
  /\ noui' \in BOOLEAN
  /\ UNCHANGED <<kwarg, locals, lzip_prompt, english, request, response, config, log,
                 received, stdout, running, lines, consecutive_empty, screen>>

SingleOutcome(o) ==
  /\ screen' = Traceback(o)
  /\ running' = o.running
  /\ keyboard' = o.keyboard

SingleCommand ==
  /\ pc = "single"
  /\ pc' = "exited"
  /\ SingleOutcome(process_command(cmd, keyboard, noui, kwarg))
  /\ UNCHANGED <<kwarg, locals, lzip_prompt, english, request, response, config, log,
                 received, stdout, lines, consecutive_empty, cmd, noui>>

ConsoleNext ==
  \/ RunInteractive
  \/ Input
  \/ SkipCommand
  \/ ProcessCommand
  \/ RunSingleCommand
  \/ SingleCommand

ConsoleSpec == Init /\ [][ConsoleNext]_vars

\* the interpreter runs the loop of run_interactive on: input() returns a line that is
\* there, or raises at once when the input has ended, and an empty text is passed over.
\* Nothing is assumed of the time a command takes.
ConsoleFairSpec == ConsoleSpec /\ WF_vars(Input) /\ WF_vars(SkipCommand)

\* the line input() returns next, as read_multiline_input sees it
LineRead == UserInput(Head(keyboard), noui)

\* the line read is blank and follows a blank line of the same reading
SecondBlank == IsBlankLine(LineRead) /\ lines # <<>> /\ IsBlankLine(lines[Len(lines)])

\* C29: read_multiline_input submits exactly when two consecutive blank lines have been
\* read, or at the end of the input.  On two blank lines the text returned is the lines
\* read before them, joined by newlines and stripped; at the end of the input it is all
\* the lines read.  Any other line is appended to the lines, so a single blank line
\* between non-blank lines is kept, and a non-blank line sets the counter of consecutive
\* blank lines to 0.
C29_ReadMultiline ==
  [][Input =>
       IF keyboard = <<>>
       THEN pc' = "command" /\ cmd' = Strip(Join(lines, "\n"))
       ELSE /\ (pc' = "command") <=> SecondBlank
            /\ SecondBlank => cmd' = Strip(Join(SubSeq(lines, 1, Len(lines) - 1), "\n"))
            /\ ~SecondBlank => (lines' = Append(lines, LineRead) /\ cmd' = cmd)
            /\ ~IsBlankLine(LineRead) => consecutive_empty' = 0
            /\ (IsBlankLine(LineRead) /\ ~SecondBlank) => consecutive_empty' = 1]_vars

\* two paragraphs separated by one blank line are submitted, with two blank lines, as one text
C29_Witness ==
  /\ pc = "command"
  /\ consecutive_empty = 2
  /\ lines = <<"act as data wizard,", "", "write parser to ">>
  /\ cmd = "act as data wizard,\n\nwrite parser to"

\* C28: once input() raises EOFError in the interactive console, run_interactive
\* eventually sets running to False and returns.  The case stated is the one where the
\* input ends at the first line of a reading, so that no command is left to run.
C28_TerminatesAtEof ==
  (pc = "input" /\ keyboard = <<>> /\ lines = <<>>) ~> (pc = "exited" /\ ~running)

\* the action get_version of the adapter
GetVersion == process_request([NoRequest EXCEPT !.action = Str("get_version")], kwarg)

\* print(f"\n{result['name']} v{result['version']}\n") for the record result
VersionShown(result) == "\n" \o result.name \o " v" \o result.version \o "\n\n"

\* C30: after the command version (or v) the console has printed the name and the version
\* the adapter returns for the action get_version, and no error.
C30_VersionShown ==
  (pc \in {"input", "exited"} /\ CommandWord(Strip(cmd)) \in {"version", "v"})
    => screen = VersionShown(GetVersion)

====
